---- MODULE Spec2Model ----
(***************************************************************************)
(* Quantum RPG (unitary/examples/quantum_rpg): command parser, save-token  *)
(* codec and main loop.                                                    *)
(*                                                                         *)
(* Python strings are modelled as sequences of one-character strings, so   *)
(* that prefix tests, lower-casing, split and join are computed and not    *)
(* assumed.                                                                *)
(***************************************************************************)
EXTENDS Integers, Sequences, FiniteSets, TLC

VARIABLES
    \* Command.parse on its own
    parse_s, parse_ret,
    \* GameState codec on its own
    codec_pc, live, before, save_file, ret,
    \* main() and MainLoop.loop
    pc,                      \* where main()/loop() stands
    end_kind,                \* how it ended, once pc is "ended" or "crashed"
    world_current_location,  \* label of world.current_location
    encounters,              \* label -> that location's encounters, in order
    game_state,              \* party, current_location_label, state_dict
    current_input,           \* game_state.current_input
    print_room_description,
    input_cmd,               \* what Command.parse gave for current_input
    xp,                      \* experience awarded so far
    out,                     \* what the last step printed
    fired,                   \* history: the encounters that started a battle
    prev,                    \* history: the state the last input step began in
    last_render,             \* history: what the last render step did
    iter_input,              \* lines left in a pre-recorded input, or Stdin
    load_failed,             \* history: a token was rejected, no line read since
    \* get_user_input_number on its own
    number_pc,               \* where the call stands
    number_lines,            \* history: the lines the input source holds
    number_next,             \* how many of them have been read
    max_number,              \* <<>> for None, <<n>> for n
    invalid_message,
    number_file,             \* what the call has printed
    user_input,              \* the value returned
    \* set_quantopedia and has_quantopedia on their own
    qp_state,                \* the GameState the calls are made on
    qp_before,               \* history: the state before the last call
    qp_history,              \* history: the arguments of the calls so far
    \* get_multiple_user_inputs on its own
    multi_pc,                \* where the call stands
    multi_lines,             \* history: the lines the input source holds
    multi_next,              \* how many of them have been read
    prompts,                 \* how many prompts were passed
    inputs,                  \* the values of the last run of the prompts
    multi_runs,              \* history: how often the prompts have been run
    multi_asked,             \* history: confirmations asked since the last run
    multi_ret,               \* <<>> or <<the value returned>>
    \* Npc.npc_action on its own
    npc_pc,                  \* where the call stands
    npc_self,                \* the class of the NPC acting (self)
    battle,                  \* player_side and enemy_side
    kwargs,                  \* <<>> for no 'slime', <<v>> for slime = v
    npc_random,              \* history: what the random source gave
    npc_ops                  \* the operations performed on qubits

parseVars == <<parse_s, parse_ret>>
codecVars == <<codec_pc, live, before, save_file, ret>>
loopVars ==
    <<pc, end_kind, world_current_location, encounters, game_state,
      current_input, print_room_description, input_cmd, xp, out, fired, prev,
      last_render, iter_input, load_failed>>
numberVars ==
    <<number_pc, number_lines, number_next, max_number, invalid_message,
      number_file, user_input>>
quantopediaVars == <<qp_state, qp_before, qp_history>>
multiVars ==
    <<multi_pc, multi_lines, multi_next, prompts, inputs, multi_runs,
      multi_asked, multi_ret>>
npcVars == <<npc_pc, npc_self, battle, kwargs, npc_random, npc_ops>>
helperVars == <<quantopediaVars, multiVars, npcVars>>
vars == <<parseVars, codecVars, loopVars, numberVars, helperVars>>

(***************************************************************************)
(* Strings                                                                 *)
(***************************************************************************)
None == "None"

UpperAlpha ==
    <<"A","B","C","D","E","F","G","H","I","J","K","L","M",
      "N","O","P","Q","R","S","T","U","V","W","X","Y","Z">>

LowerAlpha ==
    <<"a","b","c","d","e","f","g","h","i","j","k","l","m",
      "n","o","p","q","r","s","t","u","v","w","x","y","z">>

\* str.lower() on one character
LowerChar(c) ==
    IF \E i \in DOMAIN UpperAlpha : UpperAlpha[i] = c
    THEN LowerAlpha[CHOOSE i \in DOMAIN UpperAlpha : UpperAlpha[i] = c]
    ELSE c

\* str.upper() on one character (used only to build inputs)
UpperChar(c) ==
    IF \E i \in DOMAIN LowerAlpha : LowerAlpha[i] = c
    THEN UpperAlpha[CHOOSE i \in DOMAIN LowerAlpha : LowerAlpha[i] = c]
    ELSE c

\* s.lower()
Lower(s) == [i \in 1..Len(s) |-> LowerChar(s[i])]

\* s.upper()
Upper(s) == [i \in 1..Len(s) |-> UpperChar(s[i])]

\* value.startswith(s)
StartsWith(value, s) ==
    /\ Len(s) <= Len(value)
    /\ SubSeq(value, 1, Len(s)) = s

(***************************************************************************)
(* Command (examples/quantum_rpg/main_loop.py)                             *)
(***************************************************************************)
\* the members of the enumeration, in definition order
Command == <<"LOAD", "LOOK", "STATUS", "SAVE", "HELP", "QUANTOPEDIA", "QUIT">>

CommandValue(cmd) ==
    CASE cmd = "LOAD"        -> <<"l","o","a","d">>
      [] cmd = "LOOK"        -> <<"l","o","o","k">>
      [] cmd = "STATUS"      -> <<"s","t","a","t","u","s">>
      [] cmd = "SAVE"        -> <<"s","a","v","e">>
      [] cmd = "HELP"        -> <<"h","e","l","p">>
      [] cmd = "QUANTOPEDIA" -> <<"q","u","a","n","t","o","p","e","d","i","a">>
      [] cmd = "QUIT"        -> <<"Q","u","i","t">>

AmbiguousCommandError == "AmbiguousCommandError"

\* the commands other than Quit whose value starts with lower_s, in order
Candidates(lower_s) ==
    SelectSeq(Command,
              LAMBDA cmd : cmd # "QUIT" /\ StartsWith(CommandValue(cmd), lower_s))

\* mutant: the first candidate wins, as in a first-match loop
CommandParse_FirstMatch(s) ==
    IF s = <<>> THEN None
    ELSE IF StartsWith(CommandValue("QUIT"), s) THEN "QUIT"
    ELSE LET candidates == Candidates(Lower(s))
         IN  IF Len(candidates) >= 1 THEN candidates[1] ELSE None

\* mutant: Quit is matched like every other command, after lower-casing
CommandParse_QuitLowered(s) ==
    IF s = <<>> THEN None
    ELSE IF StartsWith(Lower(CommandValue("QUIT")), Lower(s)) THEN "QUIT"
    ELSE LET candidates == Candidates(Lower(s))
         IN  IF Len(candidates) = 1 THEN candidates[1]
             ELSE IF Len(candidates) > 1 THEN AmbiguousCommandError
             ELSE None

\* mutant: without the guard for the empty string
CommandParse_NoEmptyCheck(s) ==
    IF StartsWith(CommandValue("QUIT"), s) THEN "QUIT"
    ELSE LET candidates == Candidates(Lower(s))
         IN  IF Len(candidates) = 1 THEN candidates[1]
             ELSE IF Len(candidates) > 1 THEN AmbiguousCommandError
             ELSE None

\* Command.parse: a command, None, or AmbiguousCommandError raised
CommandParse(s) ==
    IF s = <<>> THEN None
    ELSE IF StartsWith(CommandValue("QUIT"), s) THEN "QUIT"
    ELSE LET candidates == Candidates(Lower(s))
         IN  IF Len(candidates) = 1 THEN candidates[1]
             ELSE IF Len(candidates) > 1 THEN AmbiguousCommandError
             ELSE None

(***************************************************************************)
(* GameState (examples/quantum_rpg/game_state.py)                          *)
(***************************************************************************)
_SAVE_DELIMITER == ";"
_DICT_DELIMITER == ":"
_QUANTOPEDIA_KEY == <<"q", "p">>

\* s.split(sep): the segments between the occurrences of sep, at least one
RECURSIVE Split(_, _)
Split(s, sep) ==
    IF \A i \in 1..Len(s) : s[i] # sep
    THEN <<s>>
    ELSE LET i == CHOOSE k \in 1..Len(s) :
                      s[k] = sep /\ \A j \in 1..(k - 1) : s[j] # sep
         IN  <<SubSeq(s, 1, i - 1)>> \o Split(SubSeq(s, i + 1, Len(s)), sep)

Digits == <<"0","1","2","3","4","5","6","7","8","9">>

IsDigit(c) == \E i \in DOMAIN Digits : Digits[i] = c

DigitValue(c) == (CHOOSE i \in DOMAIN Digits : Digits[i] = c) - 1

\* whether int(s) returns (a sign, then at least one digit) or raises ValueError
IsInt(s) ==
    LET body == IF s # <<>> /\ s[1] \in {"-", "+"} THEN Tail(s) ELSE s
    IN  body # <<>> /\ \A i \in 1..Len(body) : IsDigit(body[i])

RECURSIVE DigitsToNat(_)
DigitsToNat(ds) ==
    IF ds = <<>> THEN 0
    ELSE 10 * DigitsToNat(SubSeq(ds, 1, Len(ds) - 1)) + DigitValue(ds[Len(ds)])

\* int(s), for s with IsInt(s)
ToInt(s) ==
    IF s[1] = "-" THEN 0 - DigitsToNat(Tail(s))
    ELSE IF s[1] = "+" THEN DigitsToNat(Tail(s))
    ELSE DigitsToNat(s)

\* str(n)
RECURSIVE IntToStr(_)
IntToStr(n) ==
    IF n < 0 THEN <<"-">> \o IntToStr(0 - n)
    ELSE IF n < 10 THEN <<Digits[n + 1]>>
    ELSE IntToStr(n \div 10) \o <<Digits[(n % 10) + 1]>>

\* lines[k:]
SliceFrom(lines, k) ==
    LET n == Len(lines)
        start == IF k < 0 THEN (IF n + k < 0 THEN 0 ELSE n + k)
                 ELSE (IF k > n THEN n ELSE k)
    IN  SubSeq(lines, start + 1, n)

\* Qaracter.to_save_file: the member's segment of the token
QaracterToSaveFile(p) == p.name

\* Qaracter.from_save_file: the member a segment stands for
QaracterFromSaveFile(line) == [name |-> line]

\* state_dict is a dict in insertion order: a sequence of <<key, value>> with
\* distinct keys.  d[k] = v
DictSet(d, k, v) ==
    IF \E i \in DOMAIN d : d[i][1] = k
    THEN [i \in DOMAIN d |-> IF d[i][1] = k THEN <<k, v>> ELSE d[i]]
    ELSE Append(d, <<k, v>>)

HasKey(d, k) == \E i \in DOMAIN d : d[i][1] = k

DictGet(d, k) == d[CHOOSE i \in DOMAIN d : d[i][1] = k][2]

\* GameState(party, current_location_label, state_dict)
GameState(party, label, state_dict) ==
    [party |-> party, current_location_label |-> label, state_dict |-> state_dict]

\* mutant: a key already read is not overwritten
RECURSIVE ParseDict_FirstWins(_, _)
ParseDict_FirstWins(lines, state_dict) ==
    IF lines = <<>> THEN state_dict
    ELSE LET dict_value == Split(Head(lines), ":")
         IN  IF Len(dict_value) < 2 \/ HasKey(state_dict, dict_value[1])
             THEN ParseDict_FirstWins(Tail(lines), state_dict)
             ELSE ParseDict_FirstWins(Tail(lines),
                      DictSet(state_dict, dict_value[1], dict_value[2]))

\* the flags read from the trailing segments of a token, in order
RECURSIVE ParseDict(_, _)
ParseDict(lines, state_dict) ==
    IF lines = <<>> THEN state_dict
    ELSE LET dict_value == Split(Head(lines), ":")
         IN  IF Len(dict_value) < 2
             THEN ParseDict(Tail(lines), state_dict)
             ELSE ParseDict(Tail(lines),
                            DictSet(state_dict, dict_value[1], dict_value[2]))

\* mutant: the member segments are read one place early
DecodeParty_OffByOne(lines, num_party) ==
    [i \in 1..num_party |-> QaracterFromSaveFile(lines[1 + i])]

\* for party_idx in range(2, 2 + num_party): party.append(from_save_file(..))
DecodeParty(lines, num_party) ==
    [i \in 1..num_party |-> QaracterFromSaveFile(lines[2 + i])]

\* GameState.with_save_file on state gs: what is returned (None or "self")
\* and the state gs is left in
WithSaveFile(gs, token) ==
    LET lines == Split(token, _SAVE_DELIMITER)
    IN  IF Len(lines) < 2 THEN [ret |-> None, gs |-> gs]
        ELSE
        \* self.current_location_label = lines[0], before the count is read
        LET failed == [gs EXCEPT !.current_location_label = lines[1]]
        IN  IF ~IsInt(lines[2]) THEN [ret |-> None, gs |-> failed]
            ELSE
            LET num_party == ToInt(lines[2])
            IN  IF Len(lines) < 2 + num_party THEN [ret |-> None, gs |-> failed]
                ELSE
                LET party == DecodeParty(lines, num_party)
                    state_dict == ParseDict(SliceFrom(lines, 2 + num_party), <<>>)
                IN  [ret |-> "self",
                     gs  |-> GameState(party, lines[1], state_dict)]

\* GameState.from_save_file: with_save_file on a fresh, empty state
FromSaveFile(token) == WithSaveFile(GameState(<<>>, <<>>, <<>>), token)

RECURSIVE PartyToSave(_)
PartyToSave(party) ==
    IF party = <<>> THEN <<>>
    ELSE QaracterToSaveFile(Head(party)) \o <<_SAVE_DELIMITER>>
           \o PartyToSave(Tail(party))

RECURSIVE DictToSave(_)
DictToSave(d) ==
    IF d = <<>> THEN <<>>
    ELSE Head(d)[1] \o <<_DICT_DELIMITER>> \o Head(d)[2] \o <<_SAVE_DELIMITER>>
           \o DictToSave(Tail(d))

\* GameState.to_save_file
ToSaveFile(gs) ==
    LET s == gs.current_location_label \o <<_SAVE_DELIMITER>>
               \o IntToStr(Len(gs.party)) \o <<_SAVE_DELIMITER>>
               \o PartyToSave(gs.party) \o DictToSave(gs.state_dict)
    IN  SubSeq(s, 1, Len(s) - 1)

(***************************************************************************)
(* Command.parse as a state machine: one input, one call                   *)
(***************************************************************************)
Unset == "Unset"

CommandSet == {Command[i] : i \in DOMAIN Command}

Prefixes(v) == {SubSeq(v, 1, k) : k \in 0..Len(v)}

\* first character upper-cased
Capitalize(s) == [i \in 1..Len(s) |-> IF i = 1 THEN UpperChar(s[i]) ELSE s[i]]

\* every prefix of every command value, as typed, lower-cased, upper-cased,
\* capitalized, and followed by a character no command continues with
ParseInputs ==
    LET P == UNION {Prefixes(CommandValue(cmd)) : cmd \in CommandSet}
    IN  P \cup {Lower(p) : p \in P} \cup {Upper(p) : p \in P}
          \cup {Capitalize(p) : p \in P} \cup {Append(p, "x") : p \in P}
          \cup {Append(Lower(p), "x") : p \in P}

CodecIdle ==
    /\ codec_pc = "idle"
    /\ live = None
    /\ before = None
    /\ save_file = <<>>
    /\ ret = None

NoSnapshot == [kind |-> "none"]

\* get_user_input is input(): the player at the keyboard, no line count
Stdin == -1

LoopIdle ==
    /\ pc = "idle"
    /\ end_kind = None
    /\ world_current_location = <<>>
    /\ encounters = <<>>
    /\ game_state = None
    /\ current_input = <<>>
    /\ print_room_description = TRUE
    /\ input_cmd = Unset
    /\ xp = 0
    /\ out = <<>>
    /\ fired = <<>>
    /\ prev = NoSnapshot
    /\ last_render = NoSnapshot
    /\ iter_input = Stdin
    /\ load_failed = FALSE

ParseIdle ==
    /\ parse_s = <<>>
    /\ parse_ret = Unset

QuantopediaIdle ==
    /\ qp_state = None
    /\ qp_before = None
    /\ qp_history = <<>>

MultiIdle ==
    /\ multi_pc = "idle"
    /\ multi_lines = <<>>
    /\ multi_next = 0
    /\ prompts = 0
    /\ inputs = <<>>
    /\ multi_runs = 0
    /\ multi_asked = 0
    /\ multi_ret = <<>>

NpcIdle ==
    /\ npc_pc = "idle"
    /\ npc_self = None
    /\ battle = None
    /\ kwargs = <<>>
    /\ npc_random = None
    /\ npc_ops = <<>>

HelperIdle ==
    /\ QuantopediaIdle
    /\ MultiIdle
    /\ NpcIdle

NumberIdle ==
    /\ number_pc = "idle"
    /\ number_lines = <<>>
    /\ number_next = 0
    /\ max_number = <<>>
    /\ invalid_message = ""
    /\ number_file = <<>>
    /\ user_input = None

InitParse ==
    /\ parse_s \in ParseInputs
    /\ parse_ret = Unset
    /\ CodecIdle
    /\ LoopIdle
    /\ NumberIdle
    /\ HelperIdle

Parse ==
    /\ parse_ret = Unset
    /\ parse_ret' = CommandParse(parse_s)
    /\ UNCHANGED <<parse_s, codecVars, loopVars, numberVars, helperVars>>

NextParse == Parse

SpecParse == InitParse /\ [][NextParse]_vars

\* C1: in Command.parse, the full text of every command literal parses to that
\* command, a non-empty prefix belonging to exactly one literal parses to that
\* command, and a prefix shared by two or more literals raises
\* AmbiguousCommandError.
LiteralMatches(s) ==
    {cmd \in CommandSet : s # <<>> /\ StartsWith(CommandValue(cmd), s)}

C1_PrefixParse ==
    parse_ret # Unset =>
        /\ \A cmd \in CommandSet :
              /\ parse_s = CommandValue(cmd) => parse_ret = cmd
              /\ LiteralMatches(parse_s) = {cmd} => parse_ret = cmd
        /\ Cardinality(LiteralMatches(parse_s)) >= 2 =>
              parse_ret = AmbiguousCommandError

C1_Witness ==
    /\ parse_s = <<"l">>
    /\ LiteralMatches(parse_s) = {"LOAD", "LOOK"}
    /\ parse_ret = AmbiguousCommandError

\* C4: Command.parse returns QUIT exactly for 'Q', 'Qu', 'Qui' and 'Quit':
\* 'Q' is QUIT and not ambiguous with quantopedia, and no lower-case or
\* upper-case variant is QUIT.
QuitPrefixes ==
    {<<"Q">>, <<"Q","u">>, <<"Q","u","i">>, <<"Q","u","i","t">>}

C4_QuitExactly ==
    parse_ret # Unset => (parse_ret = "QUIT" <=> parse_s \in QuitPrefixes)

C4_Witness ==
    /\ parse_s = <<"Q">>
    /\ StartsWith(CommandValue("QUANTOPEDIA"), Lower(parse_s))
    /\ parse_ret = "QUIT"

(***************************************************************************)
(* Save-token round trip: to_save_file, then from_save_file                *)
(***************************************************************************)
MaxParty == 2
MaxFlags == 2

\* texts for labels, flag keys and flag values: empty, plain, and holding
\* each of the two delimiters
FieldStrings == {<<>>, <<"k">>, <<"a", ":", "b">>, <<"a", ";", "b">>}

\* party members; their serialized form avoids both delimiters
Members == {[name |-> <<"m">>], [name |-> <<"n">>]}

SeqsUpTo(S, n) == UNION {[1..k -> S] : k \in 0..n}

\* the dicts of at most n entries over FieldStrings
Dicts(n) ==
    {d \in SeqsUpTo(FieldStrings \X FieldStrings, n) :
        \A i, j \in DOMAIN d : d[i][1] = d[j][1] => i = j}

CodecStates ==
    {GameState(party, label, state_dict) :
        party \in SeqsUpTo(Members, MaxParty),
        label \in FieldStrings,
        state_dict \in Dicts(MaxFlags)}

InitCodec ==
    /\ codec_pc = "state"
    /\ live \in CodecStates
    /\ before = None
    /\ save_file = <<>>
    /\ ret = None
    /\ ParseIdle
    /\ LoopIdle
    /\ NumberIdle
    /\ HelperIdle

\* token = state.to_save_file()
Encode ==
    /\ codec_pc = "state"
    /\ save_file' = ToSaveFile(live)
    /\ before' = live
    /\ codec_pc' = "saved"
    /\ UNCHANGED <<live, ret, parseVars, loopVars, numberVars, helperVars>>

\* GameState.from_save_file(token)
Decode ==
    /\ codec_pc = "saved"
    /\ LET r == FromSaveFile(save_file)
       IN  /\ live' = r.gs
           /\ ret' = r.ret
    /\ codec_pc' = "loaded"
    /\ UNCHANGED <<before, save_file, parseVars, loopVars, numberVars, helperVars>>

NextCodec == Encode \/ Decode

SpecCodec == InitCodec /\ [][NextCodec]_vars

HasChar(s, c) == \E i \in DOMAIN s : s[i] = c

DictPairs(d) == {d[i] : i \in DOMAIN d}

RoundTrips ==
    /\ ret # None
    /\ live.current_location_label = before.current_location_label
    /\ live.party = before.party
    /\ DictPairs(live.state_dict) = DictPairs(before.state_dict)

\* the label holds no ';' and no flag key or value holds ';' or ':'
DelimiterFree(gs) ==
    /\ ~HasChar(gs.current_location_label, _SAVE_DELIMITER)
    /\ \A i \in DOMAIN gs.state_dict : \A f \in 1..2 :
          /\ ~HasChar(gs.state_dict[i][f], _SAVE_DELIMITER)
          /\ ~HasChar(gs.state_dict[i][f], _DICT_DELIMITER)

\* C2 (as claimed): from_save_file(state.to_save_file()) succeeds and
\* reproduces the label, the party in order and the set of flag pairs, for
\* every state, flag keys and values of arbitrary text included (the label
\* itself being free of the segment delimiter).
C2_RoundTripAnyText ==
    (/\ codec_pc = "loaded"
     /\ ~HasChar(before.current_location_label, _SAVE_DELIMITER)) => RoundTrips

\* C2 (amended): the round trip reproduces label, party and flag pairs for
\* every state whose label holds no ';' and whose flag keys and values hold
\* neither ';' nor ':'; empty party, no flags and empty values included.
C2_RoundTripDelimiterFree ==
    (codec_pc = "loaded" /\ DelimiterFree(before)) => RoundTrips

C2_Witness ==
    /\ codec_pc = "loaded"
    /\ DelimiterFree(before)
    /\ Len(before.party) = 2
    /\ before.party[1] # before.party[2]
    /\ before.state_dict = << <<<<"k">>, <<>>>>, <<<<>>, <<"k">>>> >>
    /\ RoundTrips

(***************************************************************************)
(* with_save_file called on a live state with an arbitrary token           *)
(***************************************************************************)
MaxSegments == 4

RECURSIVE Join(_, _)
Join(segments, sep) ==
    IF segments = <<>> THEN <<>>
    ELSE IF Len(segments) = 1 THEN segments[1]
    ELSE segments[1] \o <<sep>> \o Join(Tail(segments), sep)

\* what a segment of a pasted token may be: empty, a word, a count (also
\* negative), a flag, the same flag key again, a flag with an empty value
TokenSegments ==
    {<<>>, <<"a">>, <<"0">>, <<"1">>, <<"2">>, <<"-", "1">>,
     <<"k", ":", "v">>, <<"k", ":", "w">>, <<"j", ":">>}

\* every text of at most MaxSegments segments
Tokens ==
    {Join(segments, _SAVE_DELIMITER) :
        segments \in SeqsUpTo(TokenSegments, MaxSegments) \ {<<>>}}

\* the states with_save_file is called on: a fresh one, one in mid-game
DecodeLiveStates ==
    {GameState(<<>>, <<>>, <<>>),
     GameState(<<[name |-> <<"m">>]>>, <<"z">>, << <<<<"f">>, <<"1">>>> >>)}

InitDecode ==
    /\ codec_pc = "live"
    /\ live \in DecodeLiveStates
    /\ before = None
    /\ save_file = <<>>
    /\ ret = None
    /\ ParseIdle
    /\ LoopIdle
    /\ NumberIdle
    /\ HelperIdle

\* live.with_save_file(token)
CallWithSaveFile ==
    /\ codec_pc = "live"
    /\ \E token \in Tokens :
          LET r == WithSaveFile(live, token)
          IN  /\ save_file' = token
              /\ before' = live
              /\ live' = r.gs
              /\ ret' = r.ret
    /\ codec_pc' = "called"
    /\ UNCHANGED <<parseVars, loopVars, numberVars, helperVars>>

NextDecode == CallWithSaveFile

SpecDecode == InitDecode /\ [][NextDecode]_vars

\* C3: whenever with_save_file returns None (fewer than 2 segments, a
\* non-numeric count, a count exceeding the segments), the live state's
\* label, party and state_dict are exactly what they were before the call.
C3_FailedDecodeLeavesState ==
    (codec_pc = "called" /\ ret = None) => live = before

(***************************************************************************)
(* Quantopedia bits (game_state.py, npcs.py)                               *)
(***************************************************************************)
_FOAM_QUANTOPEDIA == 1
_HILLS_QUANTOPEDIA == 2
_PERIMETER_QUANTOPEDIA == 4

\* a & b and a | b on naturals
RECURSIVE BitAnd(_, _)
BitAnd(a, b) ==
    IF a = 0 \/ b = 0 THEN 0
    ELSE (a % 2) * (b % 2) + 2 * BitAnd(a \div 2, b \div 2)

RECURSIVE BitOr(_, _)
BitOr(a, b) ==
    IF a = 0 THEN b
    ELSE IF b = 0 THEN a
    ELSE (IF a % 2 = 1 \/ b % 2 = 1 THEN 1 ELSE 0)
           + 2 * BitOr(a \div 2, b \div 2)

\* mutant: the entry is overwritten with the new bits alone
SetQuantopedia_Overwrite(state_dict, num) ==
    DictSet(state_dict, _QUANTOPEDIA_KEY, IntToStr(num))

\* GameState.set_quantopedia, on the state_dict
SetQuantopedia(state_dict, num) ==
    LET d == IF HasKey(state_dict, _QUANTOPEDIA_KEY) THEN state_dict
             ELSE DictSet(state_dict, _QUANTOPEDIA_KEY, <<"0">>)
        quantopedia_num == BitOr(ToInt(DictGet(d, _QUANTOPEDIA_KEY)), num)
    IN  DictSet(d, _QUANTOPEDIA_KEY, IntToStr(quantopedia_num))

\* GameState.has_quantopedia, on the state_dict
HasQuantopedia(state_dict, num) ==
    IF ~HasKey(state_dict, _QUANTOPEDIA_KEY) THEN FALSE
    ELSE BitAnd(ToInt(DictGet(state_dict, _QUANTOPEDIA_KEY)), num) # 0

\* Npc.__subclasses__(), in definition order
NpcSubclasses ==
    <<"Observer", "BlueFoam", "GreenFoam", "RedFoam", "PurpleFoam",
      "SchrodingerCat">>

\* npc_class.quantopedia_index()
QuantopediaIndex(npc_class) ==
    IF npc_class = "SchrodingerCat" THEN _HILLS_QUANTOPEDIA
    ELSE _FOAM_QUANTOPEDIA

(***************************************************************************)
(* World, Direction, Encounter, Battle: the collaborators of the main loop *)
(***************************************************************************)
Direction == <<"NORTH", "EAST", "SOUTH", "WEST">>

DirectionValue(d) ==
    CASE d = "NORTH" -> <<"n","o","r","t","h">>
      [] d = "EAST"  -> <<"e","a","s","t">>
      [] d = "SOUTH" -> <<"s","o","u","t","h">>
      [] d = "WEST"  -> <<"w","e","s","t">>

\* Direction.parse: unique-prefix matching over the directions
DirectionParse(s) ==
    IF s = <<>> THEN None
    ELSE LET candidates ==
                 SelectSeq(Direction,
                           LAMBDA d : StartsWith(DirectionValue(d), Lower(s)))
         IN  IF Len(candidates) = 1 THEN candidates[1] ELSE None

Locations == {<<"a">>, <<"b">>}

StartLocation == <<"a">>

\* the exit of a location in a direction, or None
Exit(label, d) ==
    IF label = <<"a">> /\ d = "NORTH" THEN <<"b">>
    ELSE IF label = <<"b">> /\ d = "SOUTH" THEN <<"a">>
    ELSE None

\* World.move: the location moved to (the new current location), or None
WorldMove(label, d) == Exit(label, d)

NoAction == [kind |-> "none", text |-> <<>>]

\* Location.get_action: a static text at "a", an effect at "b"
GetAction(label, s) ==
    IF label = <<"a">> /\ s = <<"r","e","a","d">>
    THEN [kind |-> "str", text |-> <<"s","i","g","n">>]
    ELSE IF label = <<"b">> /\ s = <<"s","t","u","d","y">>
    THEN [kind |-> "callable", text |-> <<"l","o","r","e">>]
    ELSE NoAction

\* the effect at "b": the library grants the foam entry
ActionEffect(gs) ==
    [gs EXCEPT !.state_dict = SetQuantopedia(@, _FOAM_QUANTOPEDIA)]

MaxRoster == 2

\* encounter definitions: trigger probability (in thousandths), flavor text,
\* and the xp of the battle they start
EncounterKinds ==
    {[probability |-> 0,    description |-> <<>>,    xp |-> 1],
     [probability |-> 500,  description |-> <<"d">>, xp |-> 2],
     [probability |-> 1000, description |-> <<>>,    xp |-> 1]}

Draws == {0, 500, 999}

\* Encounter.will_trigger: draw < probability
WillTrigger(encounter, draw) == draw < encounter.probability

BattleResults == {"PLAYERS_WON", "PLAYERS_DOWN", "PLAYERS_ESCAPED"}

\* how many lines a battle reads before it returns
BattleReads == {1, 2}

\* the encounters of one location, each with its place in the world
Roster(label, kinds) ==
    [i \in DOMAIN kinds |->
        [at |-> label, idx |-> i, probability |-> kinds[i].probability,
         description |-> kinds[i].description, xp |-> kinds[i].xp]]

\* the worlds: "b" holds at most MaxRoster encounters, "a" holds none
WorldEncounters ==
    {[label \in Locations |->
         IF label = <<"b">> THEN Roster(label, kinds) ELSE <<>>] :
        kinds \in SeqsUpTo(EncounterKinds, MaxRoster)}

\* Location.remove_encounter
RemoveEncounter(roster, encounter) ==
    SelectSeq(roster, LAMBDA e : e # encounter)

(***************************************************************************)
(* main() and MainLoop.loop (examples/quantum_rpg/main_loop.py)            *)
(***************************************************************************)
Line(tag, arg) == [tag |-> tag, arg |-> arg]

\* what a player may type at the prompt
LoopInputs ==
    {<<"n">>, <<"s">>, <<"e">>,
     <<"r","e","a","d">>, <<"s","t","u","d","y">>,
     <<"l">>, <<"l","o","a","d">>, <<"l","o","o","k">>, <<"s","t">>,
     <<"s","a","v","e">>, <<"h">>, <<"q">>, <<"Q">>, <<"q","u","i","t">>,
     <<>>, <<"x">>}

\* the interpretations of each input, computed once
DirectionOf == [s \in LoopInputs |-> DirectionParse(s)]

ParsedAs == [s \in LoopInputs |-> CommandParse(s)]

ActionAt == [label \in Locations |-> [s \in LoopInputs |-> GetAction(label, s)]]

\* what a player may paste as a save file
LoadTokens ==
    {<<"a",";","0">>,
     <<"b",";","1",";","m",";","q","p",":","1">>,
     <<"z",";","0">>,
     <<"a">>,
     <<"z",";","x">>}

\* classes.Analyst(name)
Analyst(name) == [name |-> name]

QaracterNames == {<<"p">>}

\* what a player may type as a name: a name, and a line that is not one
TypedNames == QaracterNames \cup {<<";">>}

\* qaracter.Qaracter.is_valid_name
IsValidName(name) == name \in QaracterNames

\* mutant: every line is taken as a name
NameAccepted_Any(typed) == TRUE

\* get_user_input_qaracter_name: the test that ends its loop
NameAccepted(typed) == IsValidName(typed)

InitLoop ==
    /\ pc = "menu"
    /\ end_kind = None
    /\ world_current_location = StartLocation
    /\ encounters \in WorldEncounters
    /\ game_state = GameState(<<>>, <<>>, <<>>)
    /\ current_input = <<>>
    /\ print_room_description = TRUE
    /\ input_cmd = Unset
    /\ xp = 0
    /\ out = <<>>
    /\ fired = <<>>
    /\ prev = NoSnapshot
    /\ last_render = NoSnapshot
    /\ iter_input = Stdin
    /\ load_failed = FALSE
    /\ ParseIdle
    /\ CodecIdle
    /\ NumberIdle
    /\ HelperIdle

worldVars == <<world_current_location, encounters>>
historyVars == <<fired, prev, last_render>>
inputVars == <<iter_input, load_failed>>
idleVars == <<parseVars, codecVars, numberVars, helperVars>>

\* main(), menu choice 1: a new game, up to the prompt for the name
MenuNewGame ==
    /\ pc = "menu"
    /\ out' = <<Line("START_MENU", <<>>), Line("INTRO_STORY", <<>>)>>
    /\ pc' = "name"
    /\ UNCHANGED <<end_kind, worldVars, game_state, current_input,
                   print_room_description, input_cmd, xp, historyVars,
                   inputVars, idleVars>>

\* get_user_input_qaracter_name: a line that is not a name is refused
NameInvalid ==
    /\ pc = "name"
    /\ \E user_name \in TypedNames : ~NameAccepted(user_name)
    /\ out' = <<Line("Invalid qaracter name", <<>>)>>
    /\ UNCHANGED <<pc, end_kind, worldVars, game_state, current_input,
                   print_room_description, input_cmd, xp, historyVars,
                   inputVars, idleVars>>

\* get_user_input_qaracter_name returns; main() appends the Analyst and
\* builds the MainLoop on a new World
NameValid ==
    /\ pc = "name"
    /\ \E user_name \in TypedNames :
          /\ NameAccepted(user_name)
          /\ game_state' =
                [game_state EXCEPT !.party = Append(@, Analyst(user_name))]
    /\ world_current_location' = StartLocation
    /\ out' = <<>>
    /\ pc' = "render"
    /\ UNCHANGED <<end_kind, encounters, current_input, print_room_description,
                   input_cmd, xp, historyVars, inputVars,
                   idleVars>>

\* main(), menu choice 2: load from a pasted save file
MenuLoadGame ==
    /\ pc = "menu"
    /\ \E token \in LoadTokens :
          LET r == WithSaveFile(game_state, token)
          IN  /\ game_state' = r.gs
              /\ IF r.ret = None
                 THEN /\ out' = <<Line("START_MENU", <<>>), Line("paste", <<>>),
                                  Line("unrecognized_save_file", <<>>)>>
                      /\ UNCHANGED <<pc, end_kind, world_current_location>>
                 ELSE /\ out' = <<Line("START_MENU", <<>>), Line("paste", <<>>)>>
                      /\ IF r.gs.current_location_label \in Locations
                         THEN /\ world_current_location' =
                                     r.gs.current_location_label
                              /\ pc' = "render"
                              /\ UNCHANGED end_kind
                         ELSE /\ pc' = "crashed"
                              /\ end_kind' = "KeyError"
                              /\ UNCHANGED world_current_location
    /\ UNCHANGED <<encounters, current_input, print_room_description,
                   input_cmd, xp, historyVars, inputVars,
                   idleVars>>

\* main(), menu choice 3: help
MenuHelp ==
    /\ pc = "menu"
    /\ out' = <<Line("START_MENU", <<>>), Line("HELP", <<>>)>>
    /\ UNCHANGED <<pc, end_kind, worldVars, game_state, current_input,
                   print_room_description, input_cmd, xp, historyVars, inputVars,
                   idleVars>>

\* main(), menu choice 4: return without a main loop
MenuQuit ==
    /\ pc = "menu"
    /\ pc' = "ended"
    /\ end_kind' = "menu"
    /\ out' = <<Line("START_MENU", <<>>)>>
    /\ UNCHANGED <<worldVars, game_state, current_input,
                   print_room_description, input_cmd, xp, historyVars, inputVars,
                   idleVars>>

\* next(iter_input) can be called n more times without StopIteration
HasNext(it, n) == it = Stdin \/ it >= n

\* the iterator after n calls of next
Advance(it, n) == IF it = Stdin THEN it ELSE it - n

\* the encounters of the roster whose draw is below their probability
WouldTrigger(roster, draws) ==
    {i \in DOMAIN roster : WillTrigger(roster[i], draws[i])}

\* mutant: the loop does not break, the last encounter that triggers wins
FirstHit_Last(roster, draws) ==
    IF \E i \in DOMAIN roster : WillTrigger(roster[i], draws[i])
    THEN CHOOSE i \in DOMAIN roster :
             /\ WillTrigger(roster[i], draws[i])
             /\ \A j \in (i + 1)..Len(roster) : ~WillTrigger(roster[j], draws[j])
    ELSE 0

\* the first encounter of the roster that triggers, or 0
FirstHit(roster, draws) ==
    IF \E i \in DOMAIN roster : WillTrigger(roster[i], draws[i])
    THEN CHOOSE i \in DOMAIN roster :
             /\ WillTrigger(roster[i], draws[i])
             /\ \A j \in 1..(i - 1) : ~WillTrigger(roster[j], draws[j])
    ELSE 0

\* mutant: the encounter is removed only after a victory
RosterAfterBattle_OnlyOnWin(roster, hit, result) ==
    IF result = "PLAYERS_WON" THEN RemoveEncounter(roster, roster[hit])
    ELSE roster

\* the roster once the battle of its hit-th encounter has returned
RosterAfterBattle(roster, hit, result) == RemoveEncounter(roster, roster[hit])

\* mutant: the wrong member of BattleResult is compared
IsFatal_Escaped(result) == result = "PLAYERS_ESCAPED"

\* result == PLAYERS_DOWN: UntimelyDeathException is raised
IsFatal(result) == result = "PLAYERS_DOWN"

\* mutant: the xp is awarded whatever the result
XpAfterBattle_Always(total, result, battle_xp) == total + battle_xp

\* xp_utils.award_xp on PLAYERS_WON
XpAfterBattle(total, result, battle_xp) ==
    IF result = "PLAYERS_WON" THEN total + battle_xp ELSE total

DescriptionLines(encounter) ==
    IF encounter.description # <<>>
    THEN <<Line("encounter", encounter.description)>>
    ELSE <<>>

\* the except clause of loop()
DefeatPresentation(party) ==
    <<Line("You have been defeated!", <<>>), Line("RIP_TOP", <<>>)>>
      \o [i \in DOMAIN party |-> Line("rip_name", party[i].name)]
      \o <<Line("RIP_BOTTOM", <<>>), Line("found wanting", <<>>),
           Line("Better luck next repetition.", <<>>)>>

RenderRecord(printed, label, roster, hit, would, result, total) ==
    [kind |-> "render", printed |-> printed, location |-> label,
     roster |-> roster, hit |-> hit, would |-> would, result |-> result,
     xp_before |-> total, fought_before |-> Len(fired)]

\* loop(): the top of an iteration, up to the prompt: print the location,
\* try its encounters, run the battle of the first that triggers.  The battle
\* reads its lines from the same iterator as the loop.
Render ==
    /\ pc = "render"
    /\ LET label == world_current_location
           roster == IF print_room_description THEN encounters[label] ELSE <<>>
           shown == IF print_room_description
                    THEN <<Line("location", label)>> ELSE <<>>
       IN  \E draws \in [DOMAIN roster -> Draws] :
              LET hit == FirstHit(roster, draws)
                  would == WouldTrigger(roster, draws)
              IN  IF hit = 0
                  THEN /\ out' = shown
                       /\ pc' = "input"
                       /\ last_render' =
                             RenderRecord(print_room_description, label,
                                          roster, 0, would, None, xp)
                       /\ UNCHANGED <<encounters, fired, xp, end_kind,
                                      iter_input>>
                  ELSE \E result \in BattleResults, lines \in BattleReads :
                       IF ~HasNext(iter_input, lines)
                       THEN \* StopIteration out of a read of the battle
                            /\ pc' = "crashed"
                            /\ end_kind' = "StopIteration"
                            /\ iter_input' = 0
                            /\ out' = shown \o DescriptionLines(roster[hit])
                            /\ last_render' =
                                  RenderRecord(TRUE, label, roster, hit,
                                               would, None, xp)
                            /\ UNCHANGED <<encounters, fired, xp>>
                       ELSE
                       /\ iter_input' = Advance(iter_input, lines)
                       /\ encounters' =
                             [encounters EXCEPT
                                 ![label] = RosterAfterBattle(roster, hit, result)]
                       /\ fired' = Append(fired, roster[hit])
                       /\ xp' = XpAfterBattle(xp, result, roster[hit].xp)
                       /\ last_render' =
                             RenderRecord(TRUE, label, roster, hit, would,
                                          result, xp)
                       /\ IF IsFatal(result)
                          THEN /\ pc' = "ended"
                               /\ end_kind' = "defeat"
                               /\ out' = shown \o DescriptionLines(roster[hit])
                                           \o DefeatPresentation(game_state.party)
                          ELSE /\ pc' = "input"
                               /\ out' = shown \o DescriptionLines(roster[hit])
                                           \o <<Line("location", label)>>
                               /\ UNCHANGED end_kind
    /\ print_room_description' = TRUE
    /\ prev' = NoSnapshot
    /\ UNCHANGED <<world_current_location, game_state, current_input,
                   input_cmd, load_failed, idleVars>>

Snapshot ==
    [kind |-> "input", world_current_location |-> world_current_location,
     game_state |-> game_state, xp |-> xp, iter_input |-> iter_input,
     load_failed |-> load_failed]

\* current_input = self.game_state.get_user_input(">")
Read(s) ==
    /\ pc = "input"
    /\ HasNext(iter_input, 1)
    /\ current_input' = s
    /\ prev' = Snapshot
    /\ last_render' = NoSnapshot
    /\ UNCHANGED <<encounters, xp, fired, idleVars>>

\* mutant: the command parser is asked before the directions and the actions
Stage_CommandFirst(label, s) ==
    IF ParsedAs[s] # None THEN "command"
    ELSE IF DirectionOf[s] # None THEN "direction"
    ELSE IF ActionAt[label][s].kind # "none" THEN "action"
    ELSE "command"

\* which of the three interpretations of the input applies at a location
Stage(label, s) ==
    IF DirectionOf[s] # None THEN "direction"
    ELSE IF ActionAt[label][s].kind # "none" THEN "action"
    ELSE "command"

\* the input reaches Command.parse and parses as cmd
Dispatch(s, cmd) ==
    /\ Read(s)
    /\ Stage(world_current_location, s) = "command"
    /\ ParsedAs[s] = cmd
    /\ input_cmd' = cmd

\* the handler reads no further line
OneLine ==
    /\ iter_input' = Advance(iter_input, 1)
    /\ load_failed' = FALSE

\* mutant: the flag is set the wrong way round
Continue_Inverted(flag) ==
    /\ pc' = "render"
    /\ print_room_description' = ~flag
    /\ UNCHANGED end_kind

\* mutant: the handlers' print_room_description = False is lost
Continue_AlwaysRender(flag) ==
    /\ pc' = "render"
    /\ print_room_description' = TRUE
    /\ UNCHANGED end_kind

\* continue, with or without the next room description
Continue(flag) ==
    /\ pc' = "render"
    /\ print_room_description' = flag
    /\ UNCHANGED end_kind

\* World.move: the current location after the move
WorldAfterMove(label, d) ==
    IF WorldMove(label, d) # None THEN WorldMove(label, d) ELSE label

\* mutant: the label is not updated by a move
LabelAfterMove_Never(label, new_location) == label

\* if new_location is not None: current_location_label = new_location.label
LabelAfterMove(label, new_location) ==
    IF new_location # None THEN new_location ELSE label

Move ==
    \E s \in LoopInputs :
        /\ Read(s)
        /\ Stage(world_current_location, s) = "direction"
        /\ LET cmd == DirectionOf[s]
               new_location == WorldMove(world_current_location, cmd)
           IN  /\ world_current_location' =
                     WorldAfterMove(world_current_location, cmd)
               /\ game_state' =
                     [game_state EXCEPT !.current_location_label =
                         LabelAfterMove(@, new_location)]
        /\ input_cmd' = Unset
        /\ out' = <<>>
        /\ OneLine
        /\ Continue(TRUE)

LocationAction ==
    \E s \in LoopInputs :
        /\ Read(s)
        /\ Stage(world_current_location, s) = "action"
        /\ LET action == ActionAt[world_current_location][s]
           IN  /\ game_state' = IF action.kind = "callable"
                                THEN ActionEffect(game_state) ELSE game_state
               /\ out' = <<Line("action", action.text)>>
        /\ input_cmd' = Unset
        /\ OneLine
        /\ Continue(FALSE)
        /\ UNCHANGED world_current_location

Ambiguous ==
    \E s \in LoopInputs :
        /\ Dispatch(s, AmbiguousCommandError)
        /\ out' = <<Line("Ambiguous command", s), Line("Command.help", <<>>)>>
        /\ OneLine
        /\ Continue(FALSE)
        /\ UNCHANGED <<world_current_location, game_state>>

Quit ==
    \E s \in LoopInputs :
        /\ Dispatch(s, "QUIT")
        /\ out' = <<>>
        /\ OneLine
        /\ pc' = "ended"
        /\ end_kind' = "quit"
        /\ UNCHANGED <<world_current_location, game_state, print_room_description>>

Status ==
    \E s \in LoopInputs :
        /\ Dispatch(s, "STATUS")
        /\ out' = [i \in DOMAIN game_state.party |->
                      Line("qar_status", game_state.party[i].name)]
        /\ OneLine
        /\ Continue(FALSE)
        /\ UNCHANGED <<world_current_location, game_state>>

Help ==
    \E s \in LoopInputs :
        /\ Dispatch(s, "HELP")
        /\ out' = <<Line("HELP", <<>>)>>
        /\ OneLine
        /\ Continue(FALSE)
        /\ UNCHANGED <<world_current_location, game_state>>

RECURSIVE EntryLines(_)
EntryLines(classes) ==
    IF classes = <<>> THEN <<>>
    ELSE <<Line("npc_class", <<Head(classes)>>),
           Line("quantopedia_entry", <<Head(classes)>>),
           Line("blank", <<>>)>> \o EntryLines(Tail(classes))

\* the classes the quantopedia command lists
ShownClasses(state_dict) == NpcSubclasses

Quantopedia ==
    \E s \in LoopInputs :
        /\ Dispatch(s, "QUANTOPEDIA")
        /\ out' = <<Line("blank", <<>>)>>
                    \o EntryLines(ShownClasses(game_state.state_dict))
        /\ OneLine
        /\ Continue(FALSE)
        /\ UNCHANGED <<world_current_location, game_state>>

Load ==
    \E s \in LoopInputs, token \in LoadTokens :
        /\ Dispatch(s, "LOAD")
        /\ IF ~HasNext(iter_input, 2)
           THEN \* StopIteration out of the read of the save file
                /\ out' = <<Line("paste", <<>>)>>
                /\ pc' = "crashed"
                /\ end_kind' = "StopIteration"
                /\ iter_input' = 0
                /\ load_failed' = FALSE
                /\ UNCHANGED <<world_current_location, game_state,
                               print_room_description>>
           ELSE
           LET r == WithSaveFile(game_state, token)
           IN  /\ iter_input' = Advance(iter_input, 2)
               /\ load_failed' = (r.ret = None)
               /\ game_state' = r.gs
               /\ IF r.ret = None
                  THEN /\ out' = <<Line("paste", <<>>),
                                   Line("unrecognized_save_file", <<>>)>>
                       /\ Continue(TRUE)
                       /\ UNCHANGED world_current_location
                  ELSE /\ out' = <<Line("paste", <<>>)>>
                       /\ IF r.gs.current_location_label \in Locations
                          THEN /\ world_current_location' =
                                      r.gs.current_location_label
                               /\ Continue(TRUE)
                          ELSE /\ pc' = "crashed"
                               /\ end_kind' = "KeyError"
                               /\ UNCHANGED <<world_current_location,
                                              print_room_description>>

Save ==
    \E s \in LoopInputs :
        /\ Dispatch(s, "SAVE")
        /\ out' = <<Line("use this code", <<>>),
                    Line("save_file", ToSaveFile(game_state)),
                    Line("blank", <<>>)>>
        /\ OneLine
        /\ Continue(FALSE)
        /\ UNCHANGED <<world_current_location, game_state>>

Look ==
    \E s \in LoopInputs :
        /\ Dispatch(s, "LOOK")
        /\ out' = <<Line("location", world_current_location)>>
        /\ OneLine
        /\ Continue(FALSE)
        /\ UNCHANGED <<world_current_location, game_state>>

NotUnderstood ==
    \E s \in LoopInputs :
        /\ Dispatch(s, None)
        /\ out' = <<Line("I did not understand the command", s)>>
        /\ OneLine
        /\ Continue(FALSE)
        /\ UNCHANGED <<world_current_location, game_state>>

\* the read at the prompt finds the pre-recorded input used up: StopIteration
\* leaves loop()
InputExhausted ==
    /\ pc = "input"
    /\ ~HasNext(iter_input, 1)
    /\ pc' = "crashed"
    /\ end_kind' = "StopIteration"
    /\ out' = <<>>
    /\ prev' = NoSnapshot
    /\ last_render' = NoSnapshot
    /\ UNCHANGED <<worldVars, game_state, current_input,
                   print_room_description, input_cmd, xp, fired, inputVars,
                   idleVars>>

Next ==
    \/ MenuNewGame
    \/ NameInvalid
    \/ NameValid
    \/ MenuLoadGame
    \/ MenuHelp
    \/ MenuQuit
    \/ Render
    \/ Move
    \/ LocationAction
    \/ Ambiguous
    \/ Quit
    \/ Status
    \/ Help
    \/ Quantopedia
    \/ Load
    \/ Save
    \/ Look
    \/ NotUnderstood

Spec == InitLoop /\ [][Next]_vars

(***************************************************************************)
(* MainLoop.loop on a GameState built with a pre-recorded user_input       *)
(***************************************************************************)
MaxLines == 3

InitScript ==
    /\ pc = "render"
    /\ end_kind = None
    /\ world_current_location = StartLocation
    /\ encounters \in WorldEncounters
    /\ \E name \in QaracterNames :
          game_state = GameState(<<Analyst(name)>>, <<>>, <<>>)
    /\ current_input = <<>>
    /\ print_room_description = TRUE
    /\ input_cmd = Unset
    /\ xp = 0
    /\ out = <<>>
    /\ fired = <<>>
    /\ prev = NoSnapshot
    /\ last_render = NoSnapshot
    /\ iter_input \in 0..MaxLines
    /\ load_failed = FALSE
    /\ ParseIdle
    /\ CodecIdle
    /\ NumberIdle
    /\ HelperIdle

NextScript ==
    \/ Render
    \/ Move
    \/ LocationAction
    \/ Ambiguous
    \/ Quit
    \/ Status
    \/ Help
    \/ Quantopedia
    \/ Load
    \/ Save
    \/ Look
    \/ NotUnderstood
    \/ InputExhausted

SpecScript == InitScript /\ [][NextScript]_vars

(***************************************************************************)
(* get_user_input_number (examples/quantum_rpg/input_helpers.py)           *)
(***************************************************************************)
_INVALID_MESSAGE == "Invalid number selected."

MaxNumberLines == 3

\* what a line of the input may be: numbers in and out of a menu's range,
\* zero, a negative number, a word, an empty line
NumberLines ==
    {<<"0">>, <<"1">>, <<"2">>, <<"3">>, <<"-", "1">>, <<"x">>, <<>>}

\* max_number: None, or the size of a menu
MaxNumbers == {<<>>, <<1>>, <<2>>}

\* invalid_message: the default, or an empty text
InvalidMessages == {_INVALID_MESSAGE, ""}

InitNumber ==
    /\ number_pc = "asking"
    /\ number_lines \in SeqsUpTo(NumberLines, MaxNumberLines)
    /\ number_next = 0
    /\ max_number \in MaxNumbers
    /\ invalid_message \in InvalidMessages
    /\ number_file = <<>>
    /\ user_input = None
    /\ ParseIdle
    /\ CodecIdle
    /\ LoopIdle
    /\ HelperIdle

\* mutant: zero passes the lower bound
InRange_FromZero(n, max) ==
    IF max = <<>> THEN TRUE ELSE (n >= 0 /\ n <= max[1])

\* max_number is None or (user_input > 0 and user_input <= max_number)
InRange(n, max) ==
    IF max = <<>> THEN TRUE ELSE (n > 0 /\ n <= max[1])

\* the line get_user_input returns next
NextLine == number_lines[number_next + 1]

\* one call of get_user_input
NumberRead ==
    /\ number_pc = "asking"
    /\ number_next < Len(number_lines)
    /\ number_next' = number_next + 1
    /\ UNCHANGED <<number_lines, max_number, invalid_message, parseVars,
                   codecVars, loopVars, helperVars>>

\* int() raises ValueError: print the message and ask again
NumberValueError ==
    /\ NumberRead
    /\ ~IsInt(NextLine)
    /\ number_file' =
          Append(number_file,
                 IF invalid_message # ""
                 THEN Line("invalid_message", invalid_message)
                 ELSE Line("ValueError", NextLine))
    /\ UNCHANGED <<number_pc, user_input>>

\* the number is accepted and returned
NumberReturn ==
    /\ NumberRead
    /\ IsInt(NextLine)
    /\ InRange(ToInt(NextLine), max_number)
    /\ user_input' = ToInt(NextLine)
    /\ number_pc' = "returned"
    /\ UNCHANGED number_file

\* the number is out of range: print the message and ask again
NumberOutOfRange ==
    /\ NumberRead
    /\ IsInt(NextLine)
    /\ ~InRange(ToInt(NextLine), max_number)
    /\ number_file' =
          Append(number_file,
                 IF invalid_message # ""
                 THEN Line("invalid_message", invalid_message)
                 ELSE Line("number out of range", <<>>))
    /\ UNCHANGED <<number_pc, user_input>>

\* the input source has no line left: StopIteration leaves the call
NumberExhausted ==
    /\ number_pc = "asking"
    /\ number_next = Len(number_lines)
    /\ number_pc' = "raised"
    /\ UNCHANGED <<number_lines, number_next, max_number, invalid_message,
                   number_file, user_input, parseVars, codecVars, loopVars,
                   helperVars>>

NextNumber ==
    \/ NumberValueError
    \/ NumberReturn
    \/ NumberOutOfRange
    \/ NumberExhausted

SpecNumber == InitNumber /\ [][NextNumber]_vars

(***************************************************************************)
(* GameState.set_quantopedia and has_quantopedia as a session of calls     *)
(***************************************************************************)
MaxMask == 7
MaxCalls == 2

\* the states the calls start from: no 'qp' entry yet, with and without
\* another flag, a party member, a location
QuantopediaStates ==
    {GameState(party, label, state_dict) :
        party \in {<<>>, <<[name |-> <<"m">>]>>},
        label \in {<<>>, <<"a">>},
        state_dict \in {<<>>, << <<<<"k">>, <<"v">>>> >>}}

InitQuantopedia ==
    /\ qp_state \in QuantopediaStates
    /\ qp_before = None
    /\ qp_history = <<>>
    /\ ParseIdle
    /\ CodecIdle
    /\ LoopIdle
    /\ NumberIdle
    /\ MultiIdle
    /\ NpcIdle

\* qp_state.set_quantopedia(num)
CallSetQuantopedia ==
    /\ Len(qp_history) < MaxCalls
    /\ \E num \in 0..MaxMask :
          /\ qp_state' =
                [qp_state EXCEPT !.state_dict = SetQuantopedia(@, num)]
          /\ qp_history' = Append(qp_history, num)
    /\ qp_before' = qp_state
    /\ UNCHANGED <<parseVars, codecVars, loopVars, numberVars, multiVars,
                   npcVars>>

NextQuantopedia == CallSetQuantopedia

SpecQuantopedia == InitQuantopedia /\ [][NextQuantopedia]_vars

(***************************************************************************)
(* get_multiple_user_inputs, with prompts that each read one line of the   *)
(* same input and return it                                                *)
(***************************************************************************)
MaxMultiLines == 4
MaxPrompts == 2

MultiLines ==
    SeqsUpTo({<<>>, <<"r">>, <<"R">>, <<"x">>}, MaxMultiLines)

InitMulti ==
    /\ multi_pc = "prompts"
    /\ multi_lines \in MultiLines
    /\ multi_next = 0
    /\ prompts \in 0..MaxPrompts
    /\ inputs = <<>>
    /\ multi_runs = 0
    /\ multi_asked = 0
    /\ multi_ret = <<>>
    /\ ParseIdle
    /\ CodecIdle
    /\ LoopIdle
    /\ NumberIdle
    /\ QuantopediaIdle
    /\ NpcIdle

multiFrame ==
    <<parseVars, codecVars, loopVars, numberVars, quantopediaVars, npcVars,
      multi_lines, prompts>>

\* mutant: the redo answer is taken in either case
Redo_Lowered(a) == Lower(a) = <<"r">>

\* a == "r"
Redo(a) == a = <<"r">>

\* a == ""
Confirm(a) == a = <<>>

\* inputs = [p() for p in prompts], and the two lines of the menu
RunPrompts ==
    /\ multi_pc = "prompts"
    /\ multi_next + prompts <= Len(multi_lines)
    /\ inputs' = [i \in 1..prompts |-> <<i, multi_lines[multi_next + i]>>]
    /\ multi_next' = multi_next + prompts
    /\ multi_runs' = multi_runs + 1
    /\ multi_asked' = 0
    /\ multi_pc' = "confirm"
    /\ UNCHANGED <<multi_ret, multiFrame>>

\* a = get_user_input(...); if a == "r": break
MultiRedo ==
    /\ multi_pc = "confirm"
    /\ multi_next < Len(multi_lines)
    /\ Redo(multi_lines[multi_next + 1])
    /\ multi_next' = multi_next + 1
    /\ multi_pc' = "prompts"
    /\ UNCHANGED <<inputs, multi_runs, multi_asked, multi_ret, multiFrame>>

\* a = get_user_input(...); if a == "": return inputs
MultiConfirm ==
    /\ multi_pc = "confirm"
    /\ multi_next < Len(multi_lines)
    /\ ~Redo(multi_lines[multi_next + 1])
    /\ Confirm(multi_lines[multi_next + 1])
    /\ multi_next' = multi_next + 1
    /\ multi_ret' = <<inputs>>
    /\ multi_pc' = "returned"
    /\ UNCHANGED <<inputs, multi_runs, multi_asked, multiFrame>>

\* a = get_user_input(...), neither "r" nor "": the inner loop goes round
MultiReask ==
    /\ multi_pc = "confirm"
    /\ multi_next < Len(multi_lines)
    /\ ~Redo(multi_lines[multi_next + 1])
    /\ ~Confirm(multi_lines[multi_next + 1])
    /\ multi_next' = multi_next + 1
    /\ multi_asked' = multi_asked + 1
    /\ UNCHANGED <<multi_pc, inputs, multi_runs, multi_ret, multiFrame>>

\* the input ends inside a prompt or at the confirmation: StopIteration
MultiExhausted ==
    /\ \/ multi_pc = "prompts" /\ multi_next + prompts > Len(multi_lines)
       \/ multi_pc = "confirm" /\ multi_next >= Len(multi_lines)
    /\ multi_pc' = "raised"
    /\ multi_next' = Len(multi_lines)
    /\ UNCHANGED <<inputs, multi_runs, multi_asked, multi_ret, multiFrame>>

NextMulti ==
    \/ RunPrompts
    \/ MultiRedo
    \/ MultiConfirm
    \/ MultiReask
    \/ MultiExhausted

SpecMulti == InitMulti /\ [][NextMulti]_vars

(***************************************************************************)
(* Npc.npc_action (examples/quantum_rpg/npcs.py).  Draws and magnitudes    *)
(* are counted in thousandths: 200 is 0.2, 1000 is 1.0.                    *)
(***************************************************************************)
MaxMembers == 2

\* a qubit slot of a qaracter: whether it is active, whether get_hp finds
\* a health attribute for it
Slot(active, has_hp) == [active |-> active, has_hp |-> has_hp]

\* the qaracters a side is made of, by their qubit slots
MemberShapes ==
    {<<>>,
     <<Slot(TRUE, TRUE)>>,
     <<Slot(FALSE, TRUE)>>,
     <<Slot(TRUE, FALSE)>>,
     <<Slot(TRUE, TRUE), Slot(TRUE, TRUE)>>,
     <<Slot(FALSE, TRUE), Slot(TRUE, TRUE)>>}

\* the health attribute of a slot: a quantum object of its qaracter's world
Hp(side, member, qubit) ==
    [side |-> side, member |-> member, qubit |-> qubit, world |-> TRUE]

\* a side of a battle: its qaracters, each the sequence of its qubits
Side(tag, shapes) ==
    [m \in 1..Len(shapes) |->
        [q \in 1..Len(shapes[m]) |->
            [active |-> shapes[m][q].active,
             hp |-> IF shapes[m][q].has_hp
                      THEN <<Hp(tag, m, q)>>
                      ELSE <<>>]]]

Battles ==
    {[player_side |-> Side("player", shapes),
      enemy_side |-> Side("npc", << <<Slot(TRUE, TRUE)>> >>)] :
        shapes \in SeqsUpTo(MemberShapes, MaxMembers)}

\* player.active_qubits()
ActiveQubits(player) == SelectSeq(player, LAMBDA q : q.active)

\* the inner loop of _enemy_qubits: get_hp of each qubit, None left out
RECURSIVE HpsOf(_)
HpsOf(qubits) ==
    IF qubits = <<>> THEN <<>>
    ELSE Head(qubits).hp \o HpsOf(Tail(qubits))

\* _enemy_qubits(party)
RECURSIVE _enemy_qubits(_)
_enemy_qubits(party) ==
    IF party = <<>> THEN <<>>
    ELSE HpsOf(ActiveQubits(Head(party))) \o _enemy_qubits(Tail(party))

\* one operation on a quantum object; effect_fraction is <<>> where the
\* effect is built without one
Op(kind, target, effect_fraction) ==
    [kind |-> kind, target |-> target, effect_fraction |-> effect_fraction]

\* _sample_qubit: the operations it performs
_sample_qubit(enemy_qubit) ==
    IF ~enemy_qubit.world THEN <<>>
    ELSE <<Op("sample", enemy_qubit, <<>>)>>

\* the values of the 'slime' keyword a caller may pass: none, or one in
\* [0, 1]
SlimeArgs == {<<>>, <<0>>, <<100>>, <<1000>>}

\* the upper end of random.randint in each foam's act_on_enemy_qubit
RandintMax(cls) == IF cls = "RedFoam" THEN 350 ELSE 250

\* the results of random.randint(0, max) the model draws
Randints(cls) == {0, 1, RandintMax(cls)}

\* the results of random.random() the model draws
ActionChoices == {0, 200, 201, 500, 501, 999}

\* kwargs.get("slime") is truthy
SlimeGiven(kw) == IF kw = <<>> THEN FALSE ELSE kw[1] # 0

\* slime = kwargs.get("slime") or random.randint(0, max) / 1000.0
Slime(kw, randint) == IF SlimeGiven(kw) THEN kw[1] ELSE randint

\* the draw above which each class perturbs instead of measuring
Threshold(cls) == IF cls = "SchrodingerCat" THEN 500 ELSE 200

\* mutant: a draw equal to the threshold perturbs too
Perturbs_AtThreshold(cls, action_choice) ==
    cls # "Observer" /\ action_choice >= Threshold(cls)

\* the test at the head of each act_on_enemy_qubit
Perturbs(cls, action_choice) ==
    cls # "Observer" /\ action_choice > Threshold(cls)

\* the effect each class builds when it perturbs
Perturbation(cls, enemy_qubit, kw, randint) ==
    CASE cls \in {"BlueFoam", "RedFoam"} ->
            Op("Flip", enemy_qubit, <<Slime(kw, randint)>>)
      [] cls = "GreenFoam" ->
            Op("Phase", enemy_qubit, <<Slime(kw, randint)>>)
      [] OTHER -> Op("Superposition", enemy_qubit, <<>>)

\* act_on_enemy_qubit of the six classes: the operations performed
ActOnEnemyQubit(cls, enemy_qubit, action_choice, kw, randint) ==
    IF Perturbs(cls, action_choice)
    THEN <<Perturbation(cls, enemy_qubit, kw, randint)>>
    ELSE _sample_qubit(enemy_qubit)

\* random.randint is called
DrawsSlime(cls, action_choice, kw) ==
    /\ cls \in {"BlueFoam", "GreenFoam", "RedFoam"}
    /\ Perturbs(cls, action_choice)
    /\ ~SlimeGiven(kw)

InitNpc ==
    /\ npc_pc = "call"
    /\ npc_self \in {NpcSubclasses[i] : i \in DOMAIN NpcSubclasses}
    /\ battle \in Battles
    /\ kwargs \in SlimeArgs
    /\ npc_random = [choice |-> 0, action_choice |-> 0, randint |-> <<>>]
    /\ npc_ops = <<>>
    /\ ParseIdle
    /\ CodecIdle
    /\ LoopIdle
    /\ NumberIdle
    /\ QuantopediaIdle
    /\ MultiIdle

npcFrame ==
    <<parseVars, codecVars, loopVars, numberVars, quantopediaVars, multiVars,
      npc_self, battle, kwargs>>

\* npc_action with a target to choose
NpcAction ==
    /\ npc_pc = "call"
    /\ LET targets == _enemy_qubits(battle.player_side)
       IN  /\ targets # <<>>
           /\ \E choice \in 1..Len(targets),
                  action_choice \in ActionChoices,
                  randint \in Randints(npc_self) :
                 /\ npc_ops' = ActOnEnemyQubit(npc_self, targets[choice],
                                               action_choice, kwargs, randint)
                 /\ npc_random' =
                       [choice |-> choice,
                        action_choice |-> action_choice,
                        randint |->
                            IF DrawsSlime(npc_self, action_choice, kwargs)
                            THEN <<randint>> ELSE <<>>]
    /\ npc_pc' = "done"
    /\ UNCHANGED npcFrame

\* npc_action with no target: random.choice of an empty list raises
\* IndexError
NpcNoTarget ==
    /\ npc_pc = "call"
    /\ _enemy_qubits(battle.player_side) = <<>>
    /\ npc_pc' = "raised"
    /\ UNCHANGED <<npc_random, npc_ops, npcFrame>>

NextNpc ==
    \/ NpcAction
    \/ NpcNoTarget

SpecNpc == InitNpc /\ [][NextNpc]_vars

(***************************************************************************)
(* The earlier main loop (unitary/examples/quantum_rpg/main_loop.py)       *)
(***************************************************************************)
\* Command.parse of the earlier module: the first member whose value starts
\* with the lowered text; its only member is QUIT = "quit"
LegacyCommandParse(s) ==
    IF StartsWith(<<"q", "u", "i", "t">>, Lower(s)) THEN "QUIT" ELSE None

\* MainLoop(party, world).loop(user_input), at the head of its while loop
InitLegacy ==
    /\ pc = "render"
    /\ end_kind = None
    /\ world_current_location = StartLocation
    /\ encounters \in WorldEncounters
    /\ game_state = None
    /\ current_input = <<>>
    /\ print_room_description = TRUE
    /\ input_cmd = Unset
    /\ xp = 0
    /\ out = <<>>
    /\ fired = <<>>
    /\ prev = NoSnapshot
    /\ last_render = NoSnapshot
    /\ iter_input \in {Stdin} \cup (0..MaxLines)
    /\ load_failed = FALSE
    /\ ParseIdle
    /\ CodecIdle
    /\ NumberIdle
    /\ HelperIdle

legacyFrame ==
    <<game_state, print_room_description, xp, last_render, load_failed,
      idleVars>>

\* the location is printed and its encounters are tried, the first that
\* triggers is fought and removed, and the location is printed again
LegacyRender ==
    /\ pc = "render"
    /\ LET label == world_current_location
           roster == encounters[label]
           shown == <<Line("location", label)>>
       IN  \E draws \in [DOMAIN roster -> Draws] :
              LET hit == FirstHit(roster, draws)
              IN  IF hit = 0
                  THEN /\ out' = shown
                       /\ pc' = "input"
                       /\ UNCHANGED <<encounters, fired, end_kind, iter_input>>
                  ELSE \E lines \in BattleReads :
                       IF ~HasNext(iter_input, lines)
                       THEN /\ pc' = "crashed"
                            /\ end_kind' = "StopIteration"
                            /\ iter_input' = 0
                            /\ out' = shown \o DescriptionLines(roster[hit])
                            /\ UNCHANGED <<encounters, fired>>
                       ELSE /\ iter_input' = Advance(iter_input, lines)
                            /\ encounters' =
                                  [encounters EXCEPT ![label] =
                                      RemoveEncounter(roster, roster[hit])]
                            /\ fired' = Append(fired, roster[hit])
                            /\ pc' = "input"
                            /\ out' = shown \o DescriptionLines(roster[hit])
                                        \o shown
                            /\ UNCHANGED end_kind
    /\ prev' = NoSnapshot
    /\ UNCHANGED <<world_current_location, current_input, input_cmd,
                   legacyFrame>>

\* current_input = get_user_input(">")
LegacyRead(s) ==
    /\ pc = "input"
    /\ HasNext(iter_input, 1)
    /\ current_input' = s
    /\ iter_input' = Advance(iter_input, 1)
    /\ prev' = [kind |-> "read"]
    /\ UNCHANGED <<encounters, fired, legacyFrame>>

\* the input is a direction: move and continue
LegacyMove ==
    \E s \in LoopInputs :
        /\ LegacyRead(s)
        /\ DirectionOf[s] # None
        /\ world_current_location' =
              WorldAfterMove(world_current_location, DirectionOf[s])
        /\ input_cmd' = DirectionOf[s]
        /\ out' = <<>>
        /\ pc' = "render"
        /\ UNCHANGED end_kind

\* cmd == Command.QUIT: return
LegacyQuit ==
    \E s \in LoopInputs :
        /\ LegacyRead(s)
        /\ DirectionOf[s] = None
        /\ LegacyCommandParse(s) = "QUIT"
        /\ input_cmd' = "QUIT"
        /\ out' = <<>>
        /\ pc' = "ended"
        /\ end_kind' = "quit"
        /\ UNCHANGED world_current_location

\* any other input: the message, and the while loop goes round
LegacyNotUnderstood ==
    \E s \in LoopInputs :
        /\ LegacyRead(s)
        /\ DirectionOf[s] = None
        /\ LegacyCommandParse(s) # "QUIT"
        /\ input_cmd' = LegacyCommandParse(s)
        /\ out' = <<Line("I did not understand the command", s)>>
        /\ pc' = "render"
        /\ UNCHANGED <<end_kind, world_current_location>>

\* the read at the prompt finds user_input used up: StopIteration
LegacyInputExhausted ==
    /\ pc = "input"
    /\ ~HasNext(iter_input, 1)
    /\ pc' = "crashed"
    /\ end_kind' = "StopIteration"
    /\ out' = <<>>
    /\ prev' = NoSnapshot
    /\ UNCHANGED <<world_current_location, encounters, current_input,
                   input_cmd, fired, iter_input, legacyFrame>>

NextLegacy ==
    \/ LegacyRender
    \/ LegacyMove
    \/ LegacyQuit
    \/ LegacyNotUnderstood
    \/ LegacyInputExhausted

SpecLegacy == InitLegacy /\ [][NextLegacy]_vars

\* the text is empty, or neither a prefix of 'Quit' as typed nor, lower-cased,
\* a prefix of any other command literal
NoLiteralMatch(s) ==
    \/ s = <<>>
    \/ /\ ~StartsWith(<<"Q","u","i","t">>, s)
       /\ \A cmd \in CommandSet \ {"QUIT"} :
             ~StartsWith(CommandValue(cmd), Lower(s))

ParseGivesNone ==
    \A s \in ParseInputs \cup LoopInputs :
        NoLiteralMatch(s) => CommandParse(s) = None

\* C5: Command.parse returns None for the empty string and for every text
\* matching no literal; when such an input reaches Command.parse in the main
\* loop, the loop prints the 'did not understand' message and keeps running.
C5_UnknownInput ==
    /\ ParseGivesNone
    /\ (/\ prev.kind = "input"
        /\ Stage(prev.world_current_location, current_input) = "command"
        /\ NoLiteralMatch(current_input))
       => /\ input_cmd = None
          /\ out = <<Line("I did not understand the command", current_input)>>
          /\ pc = "render"
          /\ end_kind = None
          /\ ENABLED Render

C5_Witness ==
    /\ prev.kind = "input"
    /\ current_input = <<>>
    /\ input_cmd = None
    /\ out = <<Line("I did not understand the command", <<>>)>>
    /\ pc = "render"

NoDuplicates(seq) == \A i, j \in DOMAIN seq : seq[i] = seq[j] => i = j

Present(encounter) ==
    \E label \in Locations : \E i \in DOMAIN encounters[label] :
        encounters[label][i] = encounter

\* no encounter starts a second battle, and one whose battle has returned is
\* in no location's roster
FiresAtMostOnce ==
    /\ NoDuplicates(fired)
    /\ \A i \in DOMAIN fired : ~Present(fired[i])

\* an encounter of probability 0 never starts a battle
NeverTriggeringNeverFires ==
    \A i \in DOMAIN fired : fired[i].probability # 0

\* C6 (as claimed): each encounter fires at most once and is removed once
\* its battle has returned; one that never triggers never fires; and one that
\* always triggers fires on the first render of its location, that is, on
\* every render that finds it in the roster.
C6_AlwaysFiresOnFirstRender ==
    /\ FiresAtMostOnce
    /\ NeverTriggeringNeverFires
    /\ (last_render.kind = "render" /\ last_render.printed) =>
          \A i \in DOMAIN last_render.roster :
              last_render.roster[i].probability = 1000 => last_render.hit = i

\* C6 (amended): each encounter fires at most once and is removed once its
\* battle has returned; one that never triggers never fires; and one that
\* always triggers fires on the first render of its location on which no
\* encounter before it in the roster triggers.
C6_FiresOnceFirstHit ==
    /\ FiresAtMostOnce
    /\ NeverTriggeringNeverFires
    /\ (last_render.kind = "render" /\ last_render.printed) =>
          \A i \in DOMAIN last_render.roster :
              last_render.roster[i].probability = 1000 =>
                  last_render.hit \in 1..i

C6_Witness ==
    /\ pc = "input"
    /\ last_render.kind = "render"
    /\ Len(last_render.roster) = 2
    /\ last_render.roster[1].probability = 1000
    /\ last_render.roster[2].probability = 1000
    /\ last_render.hit = 1
    /\ fired = <<last_render.roster[1]>>
    /\ encounters[last_render.location] = <<last_render.roster[2]>>

EndsWith(seq, suffix) ==
    /\ Len(suffix) <= Len(seq)
    /\ SubSeq(seq, Len(seq) - Len(suffix) + 1, Len(seq)) = suffix

\* C7: when the battle of a render returns PLAYERS_DOWN the loop has ended
\* by defeat: no xp was awarded, the defeat presentation was printed, and no
\* further step (no read) is possible; a quit prints nothing.
C7_FatalDefeat ==
    /\ (last_render.kind = "render" /\ last_render.result = "PLAYERS_DOWN") =>
          /\ pc = "ended"
          /\ end_kind = "defeat"
          /\ xp = last_render.xp_before
          /\ EndsWith(out, DefeatPresentation(game_state.party))
          /\ ~ENABLED Next
    /\ end_kind = "defeat" =>
          (last_render.kind = "render" /\ last_render.result = "PLAYERS_DOWN")
    /\ end_kind = "quit" => (out = <<>> /\ pc = "ended")

C7_Witness ==
    /\ pc = "ended"
    /\ end_kind = "defeat"
    /\ last_render.result = "PLAYERS_DOWN"
    /\ Len(game_state.party) = 1
    /\ xp = 1
    /\ Len(fired) = 2

\* C8: after an input that parses as a direction, if the location has no
\* exit that way the world's current location and the state's label are what
\* they were; if it has one, both are the label of the location moved to.
C8_Move ==
    (prev.kind = "input"
       /\ Stage(prev.world_current_location, current_input) = "direction") =>
        LET d == DirectionParse(current_input)
            new_location == Exit(prev.world_current_location, d)
        IN  IF new_location = None
            THEN /\ world_current_location = prev.world_current_location
                 /\ game_state.current_location_label =
                       prev.game_state.current_location_label
            ELSE /\ world_current_location = new_location
                 /\ game_state.current_location_label = new_location

C8_Witness ==
    /\ prev.kind = "input"
    /\ current_input = <<"e">>
    /\ Exit(prev.world_current_location, "EAST") = None
    /\ world_current_location = <<"a">>
    /\ game_state.current_location_label = <<>>
    /\ pc = "render"

\* C9: whatever is pasted after LOAD in the main loop, the loop reports or
\* completes the load and goes on to the next prompt.
C9_LoadStaysInCycle ==
    (prev.kind = "input" /\ input_cmd = "LOAD") =>
        (pc = "render" /\ end_kind = None)

\* C10: the quantopedia command prints the entry of an NPC class only if the
\* bit of its quantopedia_index is set in the state_dict.
C10_LoreGated ==
    \A i \in DOMAIN out :
        out[i].tag = "quantopedia_entry" =>
            HasQuantopedia(game_state.state_dict, QuantopediaIndex(out[i].arg[1]))

\* an iteration that went on to the next one read at least one line
ReadsEveryIteration ==
    (prev.kind = "input" /\ pc = "render") => iter_input < prev.iter_input

\* loop() is never stuck short of its end
NeverHangs ==
    pc \notin {"ended", "crashed"} => ENABLED NextScript

\* C11: on a pre-recorded input, every iteration of loop() that does not end
\* the session reads at least one line, the loop is never stuck, and it ends
\* in one of three ways: by Quit, by fatal defeat, or by the exhaustion of
\* the input surfacing out of a read.
C11_ReadsAndTerminates ==
    /\ ReadsEveryIteration
    /\ NeverHangs
    /\ pc \in {"ended", "crashed"} =>
          end_kind \in {"quit", "defeat", "StopIteration"}

\* with fair scheduling of its steps, loop() on a pre-recorded input ends
ScriptEnds == <>(pc \in {"ended", "crashed"})

FairSpecScript == SpecScript /\ WF_vars(NextScript)

\* C12: the location field of every save token the SAVE command prints is
\* the label of the location the world points at.
C12_SavedLocationIsCurrent ==
    \A i \in DOMAIN out :
        out[i].tag = "save_file" =>
            Split(out[i].arg, _SAVE_DELIMITER)[1] = world_current_location

\* C13: an input that parses as a direction is handled as a move and reaches
\* neither the action lookup nor Command.parse, whatever command it is a
\* prefix of; an input that is no direction and names an action of the
\* location is handled as that action and does not reach Command.parse; only
\* an input that is neither reaches Command.parse.
C13_DispatchOrder ==
    prev.kind = "input" =>
        LET d == DirectionParse(current_input)
            action == GetAction(prev.world_current_location, current_input)
        IN  /\ d # None =>
                  /\ input_cmd = Unset
                  /\ out = <<>>
                  /\ world_current_location =
                        WorldAfterMove(prev.world_current_location, d)
                  /\ pc = "render"
                  /\ print_room_description
            /\ (d = None /\ action.kind # "none") =>
                  /\ input_cmd = Unset
                  /\ out = <<Line("action", action.text)>>
                  /\ world_current_location = prev.world_current_location
                  /\ pc = "render"
            /\ (d = None /\ action.kind = "none") =>
                  input_cmd = CommandParse(current_input)

C13_Witness ==
    /\ prev.kind = "input"
    /\ current_input = <<"s">>
    /\ CommandParse(current_input) = AmbiguousCommandError
    /\ prev.world_current_location = <<"b">>
    /\ world_current_location = <<"a">>
    /\ input_cmd = Unset
    /\ out = <<>>

\* the roster without its i-th encounter
Without(roster, i) ==
    SubSeq(roster, 1, i - 1) \o SubSeq(roster, i + 1, Len(roster))

\* C14: a render runs the battle of the first encounter, in roster order,
\* that would trigger, and of no other: the encounters behind it stay in the
\* roster even when they would have triggered, one battle is added to those
\* fought, and a render on which none would trigger fights none.
C14_FirstHitWins ==
    (last_render.kind = "render" /\ last_render.printed) =>
        LET r == last_render
        IN  IF r.would = {}
            THEN /\ r.hit = 0
                 /\ encounters[r.location] = r.roster
                 /\ Len(fired) = r.fought_before
            ELSE /\ r.hit \in r.would
                 /\ \A i \in r.would : r.hit <= i
                 /\ Len(fired) = r.fought_before + 1
                 /\ fired[Len(fired)] = r.roster[r.hit]
                 /\ encounters[r.location] = Without(r.roster, r.hit)
                 /\ \A i \in DOMAIN fired :
                       fired[i] = r.roster[r.hit] => i = Len(fired)

C14_Witness ==
    /\ pc = "input"
    /\ last_render.kind = "render"
    /\ last_render.would = {1, 2}
    /\ last_render.hit = 1
    /\ last_render.roster[1].probability = 500
    /\ encounters[last_render.location] = <<last_render.roster[2]>>
    /\ Len(fired) = 1

\* what Command.parse gives for the inputs the loop answers in place
InPlaceCommands ==
    {AmbiguousCommandError, None, "STATUS", "HELP", "LOOK", "SAVE",
     "QUANTOPEDIA"}

\* the line just read was an ambiguous or unrecognized command, status, help,
\* look, save, quantopedia, or a static-text action of the location
AnsweredInPlace ==
    /\ prev.kind = "input"
    /\ DirectionParse(current_input) = None
    /\ LET action == GetAction(prev.world_current_location, current_input)
       IN  \/ action.kind = "str"
           \/ /\ action.kind = "none"
              /\ CommandParse(current_input) \in InPlaceCommands

\* a step that prints nothing, evaluates no encounter and arrives at the read
SilentStepToRead ==
    /\ out' = <<>>
    /\ pc' = "input"
    /\ UNCHANGED <<worldVars, game_state, xp, fired>>

\* C15: after an input answered in place, the location, the party and the
\* flags are what they were before it, and the only step the loop can take
\* before the next read prints no location and evaluates no encounter.
C15_NoTurnConsumed ==
    AnsweredInPlace =>
        /\ pc = "render"
        /\ ~print_room_description
        /\ world_current_location = prev.world_current_location
        /\ game_state = prev.game_state
        /\ xp = prev.xp
        /\ ENABLED Next
        /\ ~ENABLED (Next /\ ~SilentStepToRead)

C15_Witness ==
    /\ AnsweredInPlace
    /\ current_input = <<"h">>
    /\ world_current_location = <<"b">>
    /\ encounters[<<"b">>] # <<>>
    /\ encounters[<<"b">>][1].probability = 1000
    /\ ~print_room_description

\* the loop is back at the prompt of the location of the battle, which it
\* printed again after the battle
BackExploring(r) ==
    /\ pc = "input"
    /\ end_kind = None
    /\ world_current_location = r.location
    /\ Len(out) >= 2
    /\ out[1] = Line("location", r.location)
    /\ out[Len(out)] = Line("location", r.location)

\* C16: when the battle of a render returns PLAYERS_WON the session's xp
\* grows by that battle's xp, once, and the loop is back at the prompt of the
\* same location, printed again; when it returns neither PLAYERS_WON nor
\* PLAYERS_DOWN the xp is what it was and the loop is back at the prompt
\* likewise.
C16_VictoryAward ==
    (last_render.kind = "render" /\ last_render.hit # 0) =>
        LET r == last_render
            battle_xp == r.roster[r.hit].xp
        IN  /\ r.result = "PLAYERS_WON" =>
                  (xp = r.xp_before + battle_xp /\ BackExploring(r))
            /\ r.result \notin {"PLAYERS_WON", "PLAYERS_DOWN"} =>
                  (xp = r.xp_before /\ BackExploring(r))

C16_Witness ==
    /\ last_render.kind = "render"
    /\ last_render.hit = 1
    /\ last_render.result = "PLAYERS_WON"
    /\ last_render.xp_before = 1
    /\ xp = 3
    /\ pc = "input"

\* C17 (as claimed): the line read next after a rejected save token is read
\* as a save token again: it is never dispatched as a direction, an action or
\* a command.
C17_RepromptsForToken ==
    prev.kind = "input" => ~prev.load_failed

\* the line just read went through the loop's dispatch: a move, or an action
\* of the location, or whatever Command.parse makes of it
Dispatched ==
    LET d == DirectionParse(current_input)
        action == GetAction(prev.world_current_location, current_input)
    IN  /\ d # None =>
              /\ input_cmd = Unset
              /\ world_current_location =
                    WorldAfterMove(prev.world_current_location, d)
        /\ (d = None /\ action.kind # "none") =>
              /\ input_cmd = Unset
              /\ out = <<Line("action", action.text)>>
        /\ (d = None /\ action.kind = "none") =>
              input_cmd = CommandParse(current_input)

Unrecognized == Line("unrecognized_save_file", <<>>)

\* C17 (amended): a rejected save token is reported and the session is back
\* at its ordinary prompt: the loop goes on to its next iteration at the same
\* location, printed again, and the line it reads next is dispatched as a
\* direction, an action or a command; the start menu is back at its choice.
C17_RejectedLoadReturnsToPrompt ==
    /\ (prev.kind = "input" /\ input_cmd = "LOAD" /\ load_failed) =>
          /\ out = <<Line("paste", <<>>), Unrecognized>>
          /\ pc = "render"
          /\ end_kind = None
          /\ print_room_description
          /\ world_current_location = prev.world_current_location
          /\ ENABLED Render
    /\ (prev.kind = "input" /\ prev.load_failed) => Dispatched
    /\ (pc = "menu" /\ out # <<>> /\ out[Len(out)] = Unrecognized) =>
          (ENABLED MenuNewGame /\ ENABLED MenuLoadGame /\ ENABLED MenuQuit)

C17_Witness ==
    /\ prev.kind = "input"
    /\ prev.load_failed
    /\ prev.world_current_location = <<"a">>
    /\ current_input = <<"n">>
    /\ world_current_location = <<"b">>
    /\ ~load_failed

\* the segments of the token with_save_file was called on
CalledLines == Split(save_file, _SAVE_DELIMITER)

\* the count declared in segment 1 can be met: it is not negative and that
\* many segments follow it
CountSatisfied(lines) ==
    /\ Len(lines) >= 2
    /\ IsInt(lines[2])
    /\ ToInt(lines[2]) >= 0
    /\ Len(lines) >= 2 + ToInt(lines[2])

\* C18: when with_save_file succeeds the party has as many members as
\* segment 1 declares, they are the decodings of the segments that follow it,
\* in order, and the flags are read from the segments after those only; a
\* token with a numeric count that cannot be met this way is rejected.
C18_PartyMatchesCount ==
    codec_pc = "called" =>
        LET lines == CalledLines
        IN  /\ ret # None =>
                  /\ CountSatisfied(lines)
                  /\ LET n == ToInt(lines[2])
                     IN  /\ Len(live.party) = n
                         /\ \A i \in 1..n :
                               live.party[i] = QaracterFromSaveFile(lines[2 + i])
                         /\ live.state_dict =
                               ParseDict(SubSeq(lines, 3 + n, Len(lines)), <<>>)
            /\ (Len(lines) >= 2 /\ IsInt(lines[2]) /\ ~CountSatisfied(lines)) =>
                  ret = None

\* the segments behind the count and the members it declares
TrailingSegments(lines) ==
    SubSeq(lines, 3 + ToInt(lines[2]), Len(lines))

\* the text of a segment before its first ':'
KeyOf(segment) ==
    LET i == CHOOSE k \in DOMAIN segment :
                 segment[k] = _DICT_DELIMITER
                   /\ \A j \in 1..(k - 1) : segment[j] # _DICT_DELIMITER
    IN  SubSeq(segment, 1, i - 1)

\* the text of a segment between its first ':' and its second, or its end
ValueOf(segment) ==
    LET rest == SubSeq(segment, Len(KeyOf(segment)) + 2, Len(segment))
    IN  IF HasChar(rest, _DICT_DELIMITER) THEN KeyOf(rest) ELSE rest

\* C19: when with_save_file succeeds, the flags are exactly the key/value
\* pairs of the trailing segments that hold a ':', the last segment of a key
\* giving its value; the trailing segments without a ':' are skipped and do
\* not fail the decode.
C19_TolerantFlags ==
    (codec_pc = "called" /\ ret # None) =>
        LET trailing == TrailingSegments(CalledLines)
            formed == {i \in DOMAIN trailing :
                          HasChar(trailing[i], _DICT_DELIMITER)}
            last == {i \in formed :
                        \A j \in formed :
                            KeyOf(trailing[j]) = KeyOf(trailing[i]) => j <= i}
            d == live.state_dict
        IN  /\ DictPairs(d) =
                  {<<KeyOf(trailing[i]), ValueOf(trailing[i])>> : i \in last}
            /\ \A i, j \in DOMAIN d : d[i][1] = d[j][1] => i = j

C19_Witness ==
    /\ codec_pc = "called"
    /\ ret # None
    /\ save_file = <<"a", ";", "0", ";", "a", ";", "k", ":", "v">>
    /\ live.state_dict = << <<<<"k">>, <<"v">>>> >>
    /\ live.party = <<>>

C19_WitnessOverride ==
    /\ codec_pc = "called"
    /\ ret # None
    /\ TrailingSegments(CalledLines) = << <<"k", ":", "v">>, <<"k", ":", "w">> >>
    /\ live.state_dict = << <<<<"k">>, <<"w">>>> >>

\* the line is a number get_user_input_number may return under max
Acceptable(line, max) ==
    /\ IsInt(line)
    /\ max # <<>> => (1 <= ToInt(line) /\ ToInt(line) <= max[1])

\* the message a rejected line is answered with
Answer(line, message) ==
    IF message # "" THEN Line("invalid_message", message)
    ELSE IF IsInt(line) THEN Line("number out of range", <<>>)
    ELSE Line("ValueError", line)

\* C20: get_user_input_number returns the number of the first line of the
\* input that is numeric and, when max_number is given, between 1 and
\* max_number; with max_number None that is the first numeric line whatever
\* its value.  Every line before it has been read and answered with one
\* message, the invalid message when there is one, and nothing else is
\* printed.
C20_FirstValidNumber ==
    /\ number_pc = "returned" =>
          /\ number_next \in 1..Len(number_lines)
          /\ Acceptable(number_lines[number_next], max_number)
          /\ user_input = ToInt(number_lines[number_next])
          /\ max_number # <<>> => user_input \in 1..max_number[1]
          /\ \A j \in 1..(number_next - 1) :
                ~Acceptable(number_lines[j], max_number)
          /\ Len(number_file) = number_next - 1
    /\ number_pc \in {"asking", "raised"} =>
          /\ \A j \in 1..number_next :
                ~Acceptable(number_lines[j], max_number)
          /\ Len(number_file) = number_next
    /\ \A j \in DOMAIN number_file :
          number_file[j] = Answer(number_lines[j], invalid_message)

C20_Witness ==
    /\ number_pc = "returned"
    /\ number_lines = <<<<"x">>, <<"0">>, <<"2">>>>
    /\ max_number = <<2>>
    /\ user_input = 2
    /\ Len(number_file) = 2

C20_WitnessAnyNumber ==
    /\ number_pc = "returned"
    /\ max_number = <<>>
    /\ number_lines[1] = <<>>
    /\ user_input = -1

\* bit k of x is set
Bit(x, k) == (x \div (2 ^ k)) % 2 = 1

SharesBit(m, n) == \E k \in 0..MaxMask : Bit(m, k) /\ Bit(n, k)

\* the entries of a state_dict other than the quantopedia's, in order
OtherFlags(state_dict) ==
    SelectSeq(state_dict, LAMBDA e : e[1] # _QUANTOPEDIA_KEY)

\* C21: has_quantopedia(n) holds exactly when an earlier set_quantopedia(m)
\* shared a bit with n; a call of set_quantopedia clears no bit, leaves the
\* party, the location and every other flag as they were, gives the same
\* state when repeated, and two calls give the same state in either order.
C21_QuantopediaBits ==
    LET d == qp_state.state_dict
        Masks == 0..MaxMask
    IN  /\ \A n \in Masks :
              HasQuantopedia(d, n) <=>
                  \E i \in DOMAIN qp_history : SharesBit(qp_history[i], n)
        /\ ~HasQuantopedia(d, 0)
        /\ qp_history # <<>> =>
              /\ \A n \in Masks :
                    HasQuantopedia(qp_before.state_dict, n) =>
                        HasQuantopedia(d, n)
              /\ qp_state.party = qp_before.party
              /\ qp_state.current_location_label =
                    qp_before.current_location_label
              /\ OtherFlags(d) = OtherFlags(qp_before.state_dict)
        /\ \A m \in Masks :
              SetQuantopedia(SetQuantopedia(d, m), m) = SetQuantopedia(d, m)
        /\ \A a, b \in Masks :
              SetQuantopedia(SetQuantopedia(d, a), b) =
                  SetQuantopedia(SetQuantopedia(d, b), a)

C21_Witness ==
    /\ qp_history = <<1, 4>>
    /\ qp_state.state_dict =
          << <<<<"k">>, <<"v">>>>, <<_QUANTOPEDIA_KEY, <<"5">>>> >>
    /\ HasQuantopedia(qp_state.state_dict, 6)
    /\ ~HasQuantopedia(qp_state.state_dict, 2)

\* the position in the input before the most recent run of the prompts
RunStart ==
    multi_next - prompts - multi_asked
        - (IF multi_pc = "returned" THEN 1 ELSE 0)

\* C22: once the prompts have run, the values held are those the prompts
\* read, in order, in their most recent run; that run is the first one or
\* follows an 'r'; every confirmation line since is neither empty nor 'r'
\* and caused no new run; the function returns only on an empty
\* confirmation line, and returns the values of the most recent run.
C22_ConfirmationProtocol ==
    /\ multi_pc \in {"confirm", "returned"} =>
          /\ inputs =
                [i \in 1..prompts |-> <<i, multi_lines[RunStart + i]>>]
          /\ \A j \in (RunStart + prompts + 1)..
                       (RunStart + prompts + multi_asked) :
                multi_lines[j] \notin {<<>>, <<"r">>}
          /\ IF multi_runs = 1
                THEN RunStart = 0
                ELSE multi_lines[RunStart] = <<"r">>
    /\ multi_ret # <<>> <=> multi_pc = "returned"
    /\ multi_pc = "returned" =>
          /\ multi_lines[multi_next] = <<>>
          /\ multi_ret = <<inputs>>

C22_Witness ==
    /\ multi_pc = "returned"
    /\ prompts = 1
    /\ multi_lines = << <<"x">>, <<"r">>, <<"R">>, <<>> >>
    /\ multi_ret = << << <<1, <<"R">>>> >> >>

C22_WitnessReask ==
    /\ multi_pc = "returned"
    /\ prompts = 1
    /\ multi_lines = << <<"x">>, <<"R">>, <<"x">>, <<>> >>
    /\ multi_runs = 1
    /\ multi_asked = 2
    /\ multi_ret = << << <<1, <<"x">>>> >> >>

\* the last line printed by the step, if any
LastLine(o) == IF o = <<>> THEN Line("none", <<>>) ELSE o[Len(o)]

\* a step of main() that leaves the start menu for the main loop
EntersLoop == pc \in {"menu", "name"} /\ pc' = "render"

\* C23: the main loop is entered only from the name prompt of a new game,
\* with exactly one member added whose name is a valid one, or from the
\* load choice with an accepted token whose location is the world's current
\* location; a rejected token and the help choice leave main() at the menu;
\* after choice 4 main() has returned and no step of the loop was or will
\* be taken.
C23_StartMenuFlow ==
    [][ /\ EntersLoop =>
              \/ /\ pc = "name"
                 /\ Len(game_state'.party) = Len(game_state.party) + 1
                 /\ SubSeq(game_state'.party, 1, Len(game_state.party)) =
                        game_state.party
                 /\ game_state'.party[Len(game_state'.party)].name
                        \in QaracterNames
                 /\ world_current_location' = StartLocation
              \/ /\ pc = "menu"
                 /\ LastLine(out') = Line("paste", <<>>)
                 /\ world_current_location' \in Locations
                 /\ world_current_location' =
                        game_state'.current_location_label
        /\ (pc = "menu" /\ LastLine(out') \in
                {Line("unrecognized_save_file", <<>>), Line("HELP", <<>>)}) =>
              /\ pc' = "menu"
              /\ last_render' = NoSnapshot
        /\ end_kind' = "menu" =>
              /\ pc = "menu"
              /\ pc' = "ended"
              /\ fired' = <<>>
              /\ last_render' = NoSnapshot
              /\ prev' = NoSnapshot
        /\ end_kind # "menu"
      ]_vars

C23_Witness ==
    /\ pc = "render"
    /\ last_render = NoSnapshot
    /\ out = <<>>
    /\ game_state.party = <<Analyst(<<"p">>)>>
    /\ world_current_location = StartLocation

C23_WitnessLoaded ==
    /\ pc = "render"
    /\ last_render = NoSnapshot
    /\ out = <<Line("START_MENU", <<>>), Line("paste", <<>>)>>
    /\ world_current_location = <<"b">>
    /\ game_state.current_location_label = <<"b">>

C23_WitnessQuit ==
    /\ pc = "ended"
    /\ end_kind = "menu"
    /\ game_state.current_location_label = <<"z">>

\* the health attributes of the active qubits of the player side
ValidTargets ==
    {battle.player_side[m][q].hp[1] :
        <<m, q>> \in
            {mq \in (DOMAIN battle.player_side) \X (1..2) :
                /\ mq[2] \in DOMAIN battle.player_side[mq[1]]
                /\ battle.player_side[mq[1]][mq[2]].active
                /\ battle.player_side[mq[1]][mq[2]].hp # <<>>}}

\* C24: a call of npc_action that finds a target performs exactly one
\* operation, on one health attribute of an active qubit of a player-side
\* member: the class's perturbation when the draw is above 0.2 (the four
\* foams) or above 0.5 (SchrodingerCat), a measurement otherwise, at the
\* threshold itself, and always for Observer.
C24_ActionPolicy ==
    npc_pc = "done" =>
        /\ Len(npc_ops) = 1
        /\ npc_ops[1].target \in ValidTargets
        /\ npc_ops[1].target.side = "player"
        /\ npc_ops[1].kind =
              (CASE npc_self = "Observer" -> "sample"
                 [] npc_self \in {"BlueFoam", "RedFoam"} ->
                      IF npc_random.action_choice > 200
                      THEN "Flip" ELSE "sample"
                 [] npc_self = "GreenFoam" ->
                      IF npc_random.action_choice > 200
                      THEN "Phase" ELSE "sample"
                 [] npc_self = "PurpleFoam" ->
                      IF npc_random.action_choice > 200
                      THEN "Superposition" ELSE "sample"
                 [] npc_self = "SchrodingerCat" ->
                      IF npc_random.action_choice > 500
                      THEN "Superposition" ELSE "sample")

C24_Witness ==
    /\ npc_pc = "done"
    /\ npc_self = "SchrodingerCat"
    /\ npc_random.action_choice = 500
    /\ npc_ops[1].kind = "sample"
    /\ npc_ops[1].target = Hp("player", 2, 2)
    /\ Len(battle.player_side[2]) = 2
    /\ ~battle.player_side[2][1].active

C24_WitnessPerturbs ==
    /\ npc_pc = "done"
    /\ npc_self = "GreenFoam"
    /\ npc_random.action_choice = 201
    /\ npc_ops[1].kind = "Phase"

\* C25: when BlueFoam, GreenFoam or RedFoam perturbs, a supplied 'slime'
\* is the magnitude applied, whatever its value, and random.randint is not
\* called; without one the magnitude is the result of randint, a multiple
\* of 0.001 in [0, 0.250] (Blue, Green) or [0, 0.350] (Red).
C25_SlimeOverride ==
    (/\ npc_pc = "done"
     /\ npc_ops # <<>>
     /\ npc_ops[1].kind \in {"Flip", "Phase"}) =>
        IF kwargs # <<>>
        THEN /\ npc_ops[1].effect_fraction = kwargs
             /\ npc_random.randint = <<>>
        ELSE /\ npc_ops[1].effect_fraction = npc_random.randint
             /\ npc_random.randint # <<>>
             /\ npc_ops[1].effect_fraction[1] \in
                   0..(IF npc_self = "RedFoam" THEN 350 ELSE 250)

\* the texts that are 'q', 'qu', 'qui' or 'quit' when lowered
QuitPrefix(s) ==
    Lower(s) \in {SubSeq(<<"q", "u", "i", "t">>, 1, k) : k \in 1..4}

\* C26: in the earlier main loop the empty string parses as no command and
\* every non-empty prefix of 'quit', in any case, as QUIT; the loop has
\* returned only after a non-direction input that is such a prefix; every
\* other non-direction input is answered with the 'did not understand'
\* message and the loop goes on.
C26_LegacyLoop ==
    /\ pc = "ended" =>
          /\ DirectionOf[current_input] = None
          /\ QuitPrefix(current_input)
    /\ (prev # NoSnapshot /\ DirectionOf[current_input] = None) =>
          /\ current_input = <<>> => input_cmd = None
          /\ QuitPrefix(current_input) =>
                input_cmd = "QUIT" /\ pc = "ended"
          /\ ~QuitPrefix(current_input) =>
                /\ out = <<Line("I did not understand the command",
                                current_input)>>
                /\ pc = "render"

====
